---- MODULE Spec2Model ----
(***************************************************************************)
(* Model of the batch pipeline of lrhehe/brain-teaser.                     *)
(*                                                                         *)
(*  - runPool, the bounded-concurrency worker pool with periodic           *)
(*    checkpoints (scripts/generate_audio.mjs and the resolver scripts).   *)
(*  - main of scripts/generate_audio.mjs: content-addressed audio jobs     *)
(*    run through runPool.                                                 *)
(*  - synthesize of scripts/generate_audio.mjs: the request loop with      *)
(*    retries on rate-limit signals.                                       *)
(*  - the pronunciation resolvers: the two dictionary-cached scripts and   *)
(*    scripts/generate_pronunciation.mjs, also with responses that leave   *)
(*    the requested format and with runs that are interrupted and rerun.   *)
(*  - the two filter scripts (static id list, batched LLM verdicts).       *)
(*  - extractChineseChars and the character set of a question.             *)
(*  - the answer flow of src/App.jsx (select, submit, next).               *)
(*  - scripts/import_data_txt.mjs: batched import with fresh ids.          *)
(*  - speak of src/utils/tts.js: the audio cache and what is playing.      *)
(*                                                                         *)
(* JavaScript runs every callback to completion, so one action is one      *)
(* synchronous stretch of code between two awaits.  Task indices are       *)
(* 0-based as in the source.                                               *)
(***************************************************************************)
EXTENDS Integers, Sequences, FiniteSets, TLC

\* ---------------------------------------------------------------- constants
SAVE_INTERVAL == 20
MAX_RETRIES == 5
BATCH_SIZE == 20
CONCURRENCY == 3
GAME_SIZE == 5
IMPORT_BATCH_SIZE == 40
CJK_FIRST == 19968
CJK_LAST == 40959

\* ------------------------------------------------------------------- bounds
MaxTasks == 41
MaxConcurrency == 2
MaxEntries == 2
BigJobs == 20
SynthJobs == 2
MaxRecords == 2
MaxKills == 1
MaxFilterRecords == 41
MaxTextLen == 3
MaxExisting == 2

VARIABLES
    phase,        \* position of the caller: "init", "pool" (awaiting runPool), "done"
    tasksLen,     \* tasks.length
    concurrency,  \* CONCURRENCY
    delay,        \* DELAY_MS > 0 (generate_audio.mjs), FALSE where runPool has no delay
    nextIndex,    \* runPool: nextIndex
    completed,    \* runPool: completed
    lastSave,     \* runPool: lastSave
    results,      \* runPool: results, index -> value (Empty while unset)
    wk,           \* the workers: worker -> [pc, i]
    checkpoints,  \* the arguments onCheckpoint was called with, in call order
    started,      \* index -> number of times tasks[index]() was invoked
    outOfOrder,   \* some task settled while a task of a lower index was pending
    questions,    \* the pronunciation entries of the record store, in iteration order
    disk,         \* hashes h whose <h>.mp3 exists in the audio directory
    hasFFmpeg,    \* ffmpeg found on the PATH
    failing,      \* texts for which the synthesis capability fails permanently
    toProcess,    \* main: toProcess, the jobs to synthesize
    skipped,      \* main: skipped
    processed,    \* main: processed
    errors,       \* main: errors
    tret,         \* index -> value the task's promise settled with (Empty while pending)
    synthCalls,   \* text -> number of synthesize(text) calls
    saved,        \* content of questions.json
    questions0,   \* the record store as read at the start of main
    disk0,        \* the audio directory at the start of main
    syn,          \* job index -> the state of its synthesize(text) call
    variant,      \* the resolver script that runs: "deepseek", "qwen" or "plain"
    dict,         \* the resolver's dict: character -> its readings, in insertion order
    dictFile,     \* content of pronunciation_dict.json
    dictAdded,    \* main: dictAdded, the count buildDictFromQuestions returned
    rt,           \* record index -> the state of its processQuestion call
    hist,         \* the interrupted runs: [kills, asked], asked the requests they sent
    recs,         \* the record store of the filter and import scripts: records [id, key]
    fil,          \* the state of the filter or import script that runs
    ext,          \* the character extractor: [text, chars]
    ui,           \* the state of the quiz component (App.jsx)
    tts           \* the state of the speech utility (utils/tts.js)

poolVars == <<tasksLen, concurrency, delay, nextIndex, completed, lastSave,
              results, wk, checkpoints, started, outOfOrder>>
audioVars == <<questions, disk, hasFFmpeg, failing, toProcess, skipped, processed,
               errors, tret, synthCalls, saved, questions0, disk0>>
resolverVars == <<variant, dict, dictFile, dictAdded, rt, hist>>
toolVars == <<recs, fil, ext, ui, tts>>
extVars == <<syn, resolverVars, toolVars>>
coreVars == <<poolVars, audioVars, syn, resolverVars>>
vars == <<phase, poolVars, audioVars, extVars>>

Empty == <<"empty">>

Min(a, b) == IF a <= b THEN a ELSE b

\* ------------------------------------------------------------------ runPool

\* Math.min(concurrency, tasks.length) workers
NumWorkers_plus1(c, n) == Min(c + 1, n)
NumWorkers(c, n) == Min(c, n)

\* const i = nextIndex++  : the value of nextIndex after the claim
AfterClaim_skip(ni) == ni + 2
AfterClaim(ni) == ni + 1

\* results[i] = await tasks[i]()  : the slot the value is stored in
ResultSlot_order(i, done) == done
ResultSlot(i, done) == i

\* completed - lastSave >= SAVE_INTERVAL
CheckpointDue_gt(c, ls) == c - ls > SAVE_INTERVAL
CheckpointDue(c, ls) == c - ls >= SAVE_INTERVAL

\* completed++
Completed_same(c) == c
Completed(c) == c + 1

\* lastSave = completed
NewLastSave_keep(c, ls) == ls
NewLastSave(c, ls) == c

\* The value an abstract task returns: every task returns its own value.
TaskValue(i) == <<"value of task", i>>

\* while (nextIndex < tasks.length) { const i = nextIndex++; ... tasks[i]() }
\* for worker w, from the pool state (w0, ni, st): claim the next index and
\* invoke the task, or leave the loop.
LoopWk(w0, w, ni, n) ==
    IF ni < n THEN [w0 EXCEPT ![w] = [pc |-> "await", i |-> ni]]
              ELSE [w0 EXCEPT ![w] = [pc |-> "done", i |-> -1]]
LoopNext(ni, n) == IF ni < n THEN AfterClaim(ni) ELSE ni
LoopStarted(st, ni, n) == IF ni < n THEN [st EXCEPT ![ni] = @ + 1] ELSE st

\* Array.from({length: Math.min(concurrency, tasks.length)}, () => worker()):
\* the workers are created in order and each runs up to its first await.
RECURSIVE SpawnWk(_, _, _, _)
SpawnWk(k, W, ni, n) ==
    IF k > W THEN [w \in 1..W |-> [pc |-> "done", i |-> -1]]
    ELSE LET rest == SpawnWk(k + 1, W, LoopNext(ni, n), n)
         IN [rest EXCEPT ![k] = IF ni < n THEN [pc |-> "await", i |-> ni]
                                          ELSE [pc |-> "done", i |-> -1]]
RECURSIVE SpawnNext(_, _, _, _)
SpawnNext(k, W, ni, n) ==
    IF k > W THEN ni ELSE SpawnNext(k + 1, W, LoopNext(ni, n), n)
RECURSIVE SpawnStarted(_, _, _, _, _)
SpawnStarted(k, W, ni, n, st) ==
    IF k > W THEN st
    ELSE SpawnStarted(k + 1, W, LoopNext(ni, n), n, LoopStarted(st, ni, n))

\* runPool(tasks, concurrency, onCheckpoint) up to await Promise.all(workers)
PoolStart(n) ==
    LET W == NumWorkers(concurrency, n)
    IN /\ tasksLen' = n
       /\ results' = [i \in 0..(n - 1) |-> Empty]
       /\ completed' = 0
       /\ lastSave' = 0
       /\ checkpoints' = <<>>
       /\ wk' = SpawnWk(1, W, 0, n)
       /\ nextIndex' = SpawnNext(1, W, 0, n)
       /\ started' = SpawnStarted(1, W, 0, n, [i \in 0..(n - 1) |-> 0])
       /\ outOfOrder' = FALSE
       /\ UNCHANGED <<concurrency, delay>>

\* The continuation of worker w after `await tasks[i]()` settled with v.
PoolResume(w, v) ==
    LET i == wk[w].i
        c1 == Completed(completed)
        due == CheckpointDue(c1, lastSave)
    IN /\ wk[w].pc = "await"
       /\ results' = [results EXCEPT ![ResultSlot(i, completed)] = v]
       /\ completed' = c1
       /\ lastSave' = IF due THEN NewLastSave(c1, lastSave) ELSE lastSave
       /\ checkpoints' = IF due THEN Append(checkpoints, c1) ELSE checkpoints
       /\ outOfOrder' = (outOfOrder \/ \E j \in 0..(i - 1) : results[j] = Empty)
       /\ IF delay /\ nextIndex < tasksLen
          THEN /\ wk' = [wk EXCEPT ![w] = [pc |-> "sleep", i |-> -1]]
               /\ UNCHANGED <<nextIndex, started>>
          ELSE /\ wk' = LoopWk(wk, w, nextIndex, tasksLen)
               /\ nextIndex' = LoopNext(nextIndex, tasksLen)
               /\ started' = LoopStarted(started, nextIndex, tasksLen)
       /\ UNCHANGED <<tasksLen, concurrency, delay>>

\* The continuation of worker w after `await sleep(DELAY_MS)`.
PoolWake(w) ==
    /\ wk[w].pc = "sleep"
    /\ wk' = LoopWk(wk, w, nextIndex, tasksLen)
    /\ nextIndex' = LoopNext(nextIndex, tasksLen)
    /\ started' = LoopStarted(started, nextIndex, tasksLen)
    /\ UNCHANGED <<tasksLen, concurrency, delay, completed, lastSave, results,
                   checkpoints, outOfOrder>>

\* await Promise.all(workers) is over: every worker left its loop.
AllWorkersDone == \A w \in DOMAIN wk : wk[w].pc = "done"

\* ------------------------------------------- runPool over abstract tasks

TaskCounts == (0..3) \cup {SAVE_INTERVAL, MaxTasks}

InitResolverIdle ==
    /\ variant = "none"
    /\ dict = <<>>
    /\ dictFile = <<>>
    /\ dictAdded = 0
    /\ rt = <<>>
    /\ hist = <<>>

InitToolsIdle ==
    /\ recs = <<>>
    /\ fil = <<>>
    /\ ext = <<>>
    /\ ui = <<>>
    /\ tts = <<>>

InitExtIdle ==
    /\ syn = <<>>
    /\ InitResolverIdle
    /\ InitToolsIdle

InitAudioIdle ==
    /\ questions = <<>>
    /\ disk = {}
    /\ hasFFmpeg = FALSE
    /\ failing = {}
    /\ toProcess = <<>>
    /\ skipped = 0
    /\ processed = 0
    /\ errors = 0
    /\ tret = <<>>
    /\ synthCalls = <<>>
    /\ saved = <<>>
    /\ questions0 = <<>>
    /\ disk0 = {}

InitPool ==
    /\ phase = "init"
    /\ tasksLen \in TaskCounts
    /\ concurrency \in 1..MaxConcurrency
    /\ delay \in BOOLEAN
    /\ nextIndex = 0
    /\ completed = 0
    /\ lastSave = 0
    /\ results = <<>>
    /\ wk = <<>>
    /\ checkpoints = <<>>
    /\ started = <<>>
    /\ outOfOrder = FALSE
    /\ InitAudioIdle
    /\ InitExtIdle

RunPool ==
    /\ UNCHANGED extVars
    /\ phase = "init"
    /\ PoolStart(tasksLen)
    /\ phase' = "pool"
    /\ UNCHANGED audioVars

TaskSettles(w) ==
    /\ UNCHANGED extVars
    /\ phase = "pool"
    /\ PoolResume(w, TaskValue(wk[w].i))
    /\ UNCHANGED <<phase, audioVars>>

SleepEnds(w) ==
    /\ UNCHANGED extVars
    /\ phase = "pool"
    /\ PoolWake(w)
    /\ UNCHANGED <<phase, audioVars>>

PoolReturns ==
    /\ UNCHANGED extVars
    /\ phase = "pool"
    /\ AllWorkersDone
    /\ phase' = "done"
    /\ UNCHANGED <<poolVars, audioVars>>

NextPool ==
    \/ RunPool
    \/ \E w \in DOMAIN wk : TaskSettles(w)
    \/ \E w \in DOMAIN wk : SleepEnds(w)
    \/ PoolReturns

SpecPool == InitPool /\ [][NextPool]_vars

\* The scheduling runPool relies on: the synchronous start and the
\* continuation after Promise.all run as soon as they can, every task a
\* worker awaits settles, and every sleep timer fires.
FairPool ==
    /\ SpecPool
    /\ WF_vars(RunPool)
    /\ WF_vars(PoolReturns)
    /\ \A w \in 1..MaxConcurrency :
          /\ WF_vars(w \in DOMAIN wk /\ TaskSettles(w))
          /\ WF_vars(w \in DOMAIN wk /\ SleepEnds(w))

\* ----------------------------------------------------- properties of runPool

\* The tasks that were started and whose result is not recorded yet.
InFlight == {i \in DOMAIN results : started[i] > 0 /\ results[i] = Empty}

\* C1: runPool starts every task exactly once: no index is started twice or
\* held by two workers, no index below nextIndex is skipped, and when runPool
\* has returned every index below tasks.length was started once.
C1_EveryTaskStartedOnce ==
    /\ \A i \in DOMAIN started : started[i] <= 1
    /\ \A v, w \in DOMAIN wk :
          (v # w /\ wk[v].pc = "await" /\ wk[w].pc = "await") => wk[v].i # wk[w].i
    /\ \A i \in DOMAIN started : i < nextIndex => started[i] = 1
    /\ phase = "done" =>
          /\ DOMAIN started = 0..(tasksLen - 1)
          /\ \A i \in 0..(tasksLen - 1) : started[i] = 1
C1_Witness ==
    /\ phase = "done"
    /\ tasksLen = MaxTasks
    /\ concurrency = MaxConcurrency
    /\ outOfOrder

\* C2: the number of tasks started and not yet finished never exceeds
\* min(concurrency, tasks.length).
C2_InFlightBounded ==
    Cardinality(InFlight) <= Min(concurrency, tasksLen)
C2_Witness ==
    /\ concurrency = MaxConcurrency
    /\ tasksLen > concurrency
    /\ completed > 0
    /\ Cardinality(InFlight) = concurrency

\* C3: when runPool has returned, results[i] is the value task i returned,
\* for every index i, whatever the order of completion.
C3_ResultsPositional ==
    phase = "done" => \A i \in 0..(tasksLen - 1) : results[i] = TaskValue(i)
C3_Witness ==
    /\ phase = "done"
    /\ tasksLen = 3
    /\ outOfOrder

RECURSIVE Multiples(_, _)
Multiples(k, n) == IF k > n THEN <<>> ELSE <<k * SAVE_INTERVAL>> \o Multiples(k + 1, n)

\* C4: onCheckpoint is called after every SAVE_INTERVAL completions with the
\* running count: the calls so far are 20, 40, ... up to the completed count,
\* and for n tasks there are floor(n / 20) of them.
C4_CheckpointEveryInterval ==
    /\ checkpoints = Multiples(1, completed \div SAVE_INTERVAL)
    /\ phase = "done" => checkpoints = Multiples(1, tasksLen \div SAVE_INTERVAL)
C4_Witness ==
    /\ phase = "done"
    /\ tasksLen = MaxTasks
    /\ Len(checkpoints) = 2
    /\ outOfOrder

\* C5: the number of completions since the last checkpoint save stays below
\* SAVE_INTERVAL.
C5_UnsavedBelowInterval ==
    completed - lastSave < SAVE_INTERVAL
C5_Witness ==
    /\ lastSave = SAVE_INTERVAL
    /\ completed - lastSave = SAVE_INTERVAL - 1

\* ------------------------------------------------ generate_audio.mjs: main

\* Texts are numbered.  The small record stores use the texts 1..3, of which
\* hashText maps 1 and 2 to one hash; the large store uses the texts BigText(j),
\* which have pairwise different hashes.
SmallTexts == 1..3
BigText(j) == 2 * j - 1

\* createHash('md5').update(text).digest('hex').slice(0, 12): a fixed function
\* of the text that is not injective (the digest is truncated).
hashText(text) == (text + 1) \div 2

\* A pronunciation entry: tts = 0 stands for an entry the collection loop skips
\* (no ttsText), audio = 0 for an entry without audioFile; audio = h stands for
\* audioFile "<h>.mp3".
Entry == [tts : {0} \cup SmallTexts, audio : 0..2]

TextsOf(qs) == {qs[k].tts : k \in 1..Len(qs)} \ {0}

RECURSIVE FindHash(_, _, _)
FindHash(map, h, k) ==
    IF k > Len(map) THEN 0
    ELSE IF map[k].hash = h THEN k ELSE FindHash(map, h, k + 1)

\* ttsMap.has(hash)
HasKey_never(map, h) == FALSE
HasKey(map, h) == FindHash(map, h, 1) # 0

\* for (qi...) for ([char, info] of Object.entries(q.pronunciation)) { ... }
\* ttsMap as the sequence of its values in insertion order.
RECURSIVE Collect_latest(_, _, _)
Collect_latest(qs, k, map) ==
    IF k > Len(qs) THEN map
    ELSE IF qs[k].tts = 0 THEN Collect_latest(qs, k + 1, map)
    ELSE LET h == hashText(qs[k].tts)
         IN IF ~HasKey(map, h)
            THEN Collect_latest(qs, k + 1,
                         Append(map, [hash |-> h, ttsText |-> qs[k].tts, refs |-> <<k>>]))
            ELSE Collect_latest(qs, k + 1,
                         [map EXCEPT ![FindHash(map, h, 1)].refs = Append(@, k),
                                     ![FindHash(map, h, 1)].ttsText = qs[k].tts])
RECURSIVE Collect(_, _, _)
Collect(qs, k, map) ==
    IF k > Len(qs) THEN map
    ELSE IF qs[k].tts = 0 THEN Collect(qs, k + 1, map)
    ELSE LET h == hashText(qs[k].tts)
         IN IF ~HasKey(map, h)
            THEN Collect(qs, k + 1,
                         Append(map, [hash |-> h, ttsText |-> qs[k].tts, refs |-> <<k>>]))
            ELSE Collect(qs, k + 1,
                         [map EXCEPT ![FindHash(map, h, 1)].refs = Append(@, k)])

\* existsSync(join(audioDir, `${hash}.mp3`))
FileExists_always(h, d) == TRUE
FileExists_never(h, d) == FALSE
FileExists(h, d) == h \in d

\* for (const ref of entry.refs) questions[ref.qIndex].pronunciation[ref.char].audioFile = audioFile
Wire(qs, refs, h) ==
    [k \in 1..Len(qs) |->
        IF \E r \in 1..Len(refs) : refs[r] = k THEN [qs[k] EXCEPT !.audio = h] ELSE qs[k]]

\* The partition loop: the record store after wiring the existing artifacts.
RECURSIVE WireExisting(_, _, _, _)
WireExisting(map, k, d, qs) ==
    IF k > Len(map) THEN qs
    ELSE IF FileExists(map[k].hash, d)
         THEN WireExisting(map, k + 1, d, Wire(qs, map[k].refs, map[k].hash))
         ELSE WireExisting(map, k + 1, d, qs)

\* The partition loop: toProcess.
RECURSIVE ToProcess(_, _, _)
ToProcess(map, k, d) ==
    IF k > Len(map) THEN <<>>
    ELSE IF FileExists(map[k].hash, d) THEN ToProcess(map, k + 1, d)
         ELSE <<map[k]>> \o ToProcess(map, k + 1, d)

\* catch (err) { errors++; ... }: the references are set inside the try, after
\* the artifact was written and read back, so a failed job leaves the entries
\* as they were.
RefsOnFailure_wired(qs, refs, h) == Wire(qs, refs, h)
RefsOnFailure(qs, refs, h) == qs

\* const audioBuffer = await synthesize(entry.ttsText): the task of a job calls
\* synthesize as its first step, when the worker invokes it.  sc counts the
\* calls per text; st0 and st1 are `started` before and after the step.
RECURSIVE SynthCount(_, _, _, _, _)
SynthCount(sc, tp, st0, st1, k) ==
    IF k > Len(tp) THEN sc
    ELSE LET n0 == IF (k - 1) \in DOMAIN st0 THEN st0[k - 1] ELSE 0
         IN SynthCount([sc EXCEPT ![tp[k].ttsText] = @ + st1[k - 1] - n0],
                       tp, st0, st1, k + 1)

Ok == <<"ok">>
Error == <<"error">>

\* The record stores of the model: every small store whose audioFile references
\* resolve (an entry may carry the audioFile of an earlier run, also one made
\* before its ttsText was rewritten), and one large store of BigJobs distinct
\* texts without audio in which the synthesis of job #7 fails permanently.
\* failing lists only texts that are sent to synthesize in the run.
SmallStores == UNION {[1..n -> Entry] : n \in 0..MaxEntries}
BigStore == [k \in 1..BigJobs |-> [tts |-> BigText(k), audio |-> 0]]

InitAudio ==
    /\ phase = "init"
    /\ \/ /\ questions \in SmallStores
          /\ disk \in SUBSET (1..2)
          /\ \A k \in 1..Len(questions) : questions[k].audio # 0 => questions[k].audio \in disk
          /\ hasFFmpeg \in BOOLEAN
          /\ failing \in SUBSET SmallTexts
          /\ LET tp == ToProcess(Collect(questions, 1, <<>>), 1, disk)
             IN \A t \in failing : \E j \in 1..Len(tp) : tp[j].ttsText = t
          /\ delay \in BOOLEAN
       \/ /\ questions = BigStore
          /\ disk = {}
          /\ hasFFmpeg = FALSE
          /\ failing = {BigText(7)}
          /\ delay = TRUE
    /\ concurrency \in 1..MaxConcurrency
    /\ tasksLen = 0
    /\ nextIndex = 0
    /\ completed = 0
    /\ lastSave = 0
    /\ results = <<>>
    /\ wk = <<>>
    /\ checkpoints = <<>>
    /\ started = <<>>
    /\ outOfOrder = FALSE
    /\ toProcess = <<>>
    /\ skipped = 0
    /\ processed = 0
    /\ errors = 0
    /\ tret = <<>>
    /\ synthCalls = [t \in TextsOf(questions) |-> 0]
    /\ saved = questions
    /\ questions0 = questions
    /\ disk0 = disk
    /\ InitExtIdle

\* main, from reading questions.json to `await runPool(...)`.
MainStart ==
    /\ UNCHANGED extVars
    /\ phase = "init"
    /\ LET map == Collect(questions, 1, <<>>)
           tp == ToProcess(map, 1, disk)
           qs == WireExisting(map, 1, disk, questions)
       IN /\ questions' = qs
          /\ toProcess' = tp
          /\ skipped' = Len(map) - Len(tp)
          /\ IF Len(tp) = 0
             THEN /\ saved' = qs
                  /\ phase' = "done"
                  /\ UNCHANGED <<poolVars, tret, synthCalls>>
             ELSE /\ PoolStart(Len(tp))
                  /\ tret' = [i \in 0..(Len(tp) - 1) |-> Empty]
                  /\ synthCalls' = SynthCount(synthCalls, tp, <<>>, started', 1)
                  /\ phase' = "pool"
                  /\ UNCHANGED saved
    /\ UNCHANGED <<disk, hasFFmpeg, failing, processed, errors, questions0, disk0>>

\* The task of job i when synthesize threw: the catch clause.
TaskFails(i) ==
    /\ UNCHANGED extVars
    /\ phase = "pool"
    /\ i \in DOMAIN tret
    /\ started[i] > 0
    /\ tret[i] = Empty
    /\ toProcess[i + 1].ttsText \in failing
    /\ errors' = errors + 1
    /\ tret' = [tret EXCEPT ![i] = Error]
    /\ questions' = RefsOnFailure(questions, toProcess[i + 1].refs, toProcess[i + 1].hash)
    /\ UNCHANGED <<phase, poolVars, disk, hasFFmpeg, failing, toProcess,
                   skipped, processed, synthCalls, saved, questions0, disk0>>

\* The task of job i when synthesize returned the audio: the artifact is
\* written (wavToMp3 or writeFileSync), read back, and the references are set.
TaskWrites(i) ==
    /\ UNCHANGED extVars
    /\ phase = "pool"
    /\ i \in DOMAIN tret
    /\ started[i] > 0
    /\ tret[i] = Empty
    /\ toProcess[i + 1].ttsText \notin failing
    /\ disk' = disk \cup {toProcess[i + 1].hash}
    /\ questions' = Wire(questions, toProcess[i + 1].refs, toProcess[i + 1].hash)
    /\ processed' = processed + 1
    /\ tret' = [tret EXCEPT ![i] = Ok]
    /\ UNCHANGED <<phase, poolVars, hasFFmpeg, failing, toProcess, skipped, errors,
                   synthCalls, saved, questions0, disk0>>

\* The task of job i when ffmpeg fails in wavToMp3: execSync throws, the output
\* file may or may not have been created, and the catch clause runs.
TaskConvertFails(i) ==
    /\ UNCHANGED extVars
    /\ phase = "pool"
    /\ hasFFmpeg
    /\ i \in DOMAIN tret
    /\ started[i] > 0
    /\ tret[i] = Empty
    /\ toProcess[i + 1].ttsText \notin failing
    /\ \E partial \in BOOLEAN :
          disk' = IF partial THEN disk \cup {toProcess[i + 1].hash} ELSE disk
    /\ errors' = errors + 1
    /\ tret' = [tret EXCEPT ![i] = Error]
    /\ questions' = RefsOnFailure(questions, toProcess[i + 1].refs, toProcess[i + 1].hash)
    /\ UNCHANGED <<phase, poolVars, hasFFmpeg, failing, toProcess, skipped,
                   processed, synthCalls, saved, questions0, disk0>>

\* The worker's continuation after the task of its job settled; a due
\* checkpoint runs saveProgress, which rewrites questions.json.
WorkerResumes(w) ==
    /\ UNCHANGED extVars
    /\ phase = "pool"
    /\ wk[w].pc = "await"
    /\ tret[wk[w].i] # Empty
    /\ PoolResume(w, tret[wk[w].i])
    /\ saved' = IF Len(checkpoints') > Len(checkpoints) THEN questions ELSE saved
    /\ synthCalls' = IF started' = started THEN synthCalls
                     ELSE [synthCalls EXCEPT ![toProcess[nextIndex + 1].ttsText] = @ + 1]
    /\ UNCHANGED <<phase, questions, disk, hasFFmpeg, failing, toProcess, skipped,
                   processed, errors, tret, questions0, disk0>>

WorkerWakes(w) ==
    /\ UNCHANGED extVars
    /\ phase = "pool"
    /\ PoolWake(w)
    /\ synthCalls' = IF started' = started THEN synthCalls
                     ELSE [synthCalls EXCEPT ![toProcess[nextIndex + 1].ttsText] = @ + 1]
    /\ UNCHANGED <<phase, questions, disk, hasFFmpeg, failing, toProcess, skipped,
                   processed, errors, tret, saved, questions0, disk0>>

\* runPool returned: the final save.
MainFinish ==
    /\ UNCHANGED extVars
    /\ phase = "pool"
    /\ AllWorkersDone
    /\ saved' = questions
    /\ phase' = "done"
    /\ UNCHANGED <<poolVars, questions, disk, hasFFmpeg, failing, toProcess, skipped,
                   processed, errors, tret, synthCalls, questions0, disk0>>

NextAudio ==
    \/ MainStart
    \/ \E i \in DOMAIN tret : TaskFails(i)
    \/ \E i \in DOMAIN tret : TaskWrites(i)
    \/ \E i \in DOMAIN tret : TaskConvertFails(i)
    \/ \E w \in DOMAIN wk : WorkerResumes(w)
    \/ \E w \in DOMAIN wk : WorkerWakes(w)
    \/ MainFinish

SpecAudio == InitAudio /\ [][NextAudio]_vars

\* ---------------------------------------- properties of generate_audio.mjs

Jobs == DOMAIN tret
JobRefs(i) == {toProcess[i + 1].refs[r] : r \in 1..Len(toProcess[i + 1].refs)}
SynthFailed == {i \in Jobs : tret[i] = Error /\ toProcess[i + 1].ttsText \in failing}

\* C6: a job whose synthesis fails permanently does not stop the run: every
\* job runs to completion, the entries of a failed job are left without
\* audioFile, and the error count is the number of failed jobs.
C6_FailureIsolated ==
    (phase = "done" /\ Len(toProcess) > 0) =>
        /\ \A i \in Jobs : started[i] = 1 /\ tret[i] # Empty /\ results[i] = tret[i]
        /\ errors = Cardinality({i \in Jobs : tret[i] = Error})
        /\ processed = Cardinality({i \in Jobs : tret[i] = Ok})
        /\ \A i \in SynthFailed : \A k \in JobRefs(i) : questions[k].audio = 0

\* C7: synthesize is never called for a hash whose <hash>.mp3 exists when the
\* jobs are partitioned, and every entry whose ttsText maps to such a hash gets
\* audioFile = <hash>.mp3.
C7_ExistingNeverSynthesized ==
    phase # "init" =>
        /\ \A t \in DOMAIN synthCalls : hashText(t) \in disk0 => synthCalls[t] = 0
        /\ \A k \in 1..Len(questions0) :
              (questions0[k].tts # 0 /\ hashText(questions0[k].tts) \in disk0)
                  => questions[k].audio = hashText(questions0[k].tts)
C7_Witness ==
    /\ phase = "done"
    /\ processed > 0
    /\ \E k \in 1..Len(questions0) :
          /\ questions0[k].tts # 0
          /\ hashText(questions0[k].tts) \in disk0
          /\ questions0[k].audio # hashText(questions0[k].tts)
          /\ questions[k].audio = hashText(questions0[k].tts)

\* C8: within one run synthesize is called at most once for any ttsText.
C8_SynthesizeOncePerText ==
    \A t \in DOMAIN synthCalls : synthCalls[t] <= 1
C8_Witness ==
    /\ phase = "done"
    /\ \E j, k \in 1..Len(questions0) :
          /\ j # k
          /\ questions0[j].tts # 0
          /\ questions0[j].tts = questions0[k].tts
          /\ synthCalls[questions0[j].tts] = 1

\* C9: after main completes, any two entries with the same ttsText have the
\* same audioFile value.
C9_SameTextSameAudio ==
    phase = "done" =>
        \A j, k \in 1..Len(questions) :
            (questions[j].tts # 0 /\ questions[j].tts = questions[k].tts)
                => questions[j].audio = questions[k].audio

FirstText(h) ==
    LET at == {k \in 1..Len(questions0) :
                  questions0[k].tts # 0 /\ hashText(questions0[k].tts) = h}
    IN questions0[CHOOSE k \in at : \A j \in at : k <= j].tts

\* C27: two different texts with one hash are one job: the job carries the
\* text met first, synthesize is never called with the other text, and when
\* the artifact <hash>.mp3 existed or the job has produced it, every entry of
\* both texts names it at the end of the run.
C27_CollisionCollapses ==
    phase # "init" =>
        \A k \in 1..Len(questions0) :
            LET t == questions0[k].tts
                h == hashText(t)
            IN (t # 0 /\ t # FirstText(h)) =>
                  /\ synthCalls[t] = 0
                  /\ Cardinality({j \in 1..Len(toProcess) : toProcess[j].hash = h}) <= 1
                  /\ \A j \in 1..Len(toProcess) :
                        toProcess[j].hash = h => toProcess[j].ttsText = FirstText(h)
                  /\ (/\ phase = "done"
                      /\ \/ h \in disk0
                         \/ \E j \in 1..Len(toProcess) :
                               toProcess[j].hash = h /\ tret[j - 1] = Ok) =>
                        \A m \in 1..Len(questions0) :
                            (questions0[m].tts # 0 /\ hashText(questions0[m].tts) = h)
                                => saved[m].audio = h
C27_Witness ==
    /\ phase = "done"
    /\ \E j, k \in 1..Len(questions0) :
          /\ j < k
          /\ questions0[j].tts # 0
          /\ questions0[k].tts # 0
          /\ questions0[j].tts # questions0[k].tts
          /\ hashText(questions0[j].tts) = hashText(questions0[k].tts)
          /\ hashText(questions0[j].tts) \notin disk0
          /\ synthCalls[questions0[j].tts] = 1
          /\ synthCalls[questions0[k].tts] = 0
          /\ saved[j].audio = hashText(questions0[j].tts)
          /\ saved[k].audio = hashText(questions0[j].tts)

\* ------------------------------------------- generate_audio.mjs: synthesize

\* What one request of synthesize can come back with:
\*   "network"     fetch itself rejects
\*   "429"         !response.ok with status 429
\*   "http_error"  !response.ok with another status
\*   "throttling"  a body whose code contains 'Throttling'
\*   "api_error"   a body with another code
\*   "bad_shape"   no code, and output.audio is neither a string nor has a url
\*   "audio"       no code, and an audio url
Responses == {"network", "429", "http_error", "throttling", "api_error", "bad_shape", "audio"}

\* response.status === 429  /  result.code.includes('Throttling')
IsRateLimit_http(r) == r \in {"429", "throttling", "http_error"}
IsRateLimit(r) == r \in {"429", "throttling"}

\* ... && attempt < MAX_RETRIES
RetryAllowed_always(attempt) == TRUE
RetryAllowed(attempt) == attempt < MAX_RETRIES

\* const backoff = Math.pow(2, attempt + 1) * 3000
Backoff(attempt) == (2 ^ (attempt + 1)) * 3000

\* The state of a synthesize call that has not sent a request yet: at the
\* fetch of attempt 0.  failedAt is the number of the request that came back
\* with a failure other than a rate-limit signal (0: none so far).
SynthFresh ==
    [pc |-> "fetch", attempt |-> 0, requests |-> 0, waits |-> <<>>,
     last |-> "none", failedAt |-> 0]

\* The call is over: it returned or threw, and its frame is gone.
SynthOver ==
    [pc |-> "over", attempt |-> 0, requests |-> 0, waits |-> <<>>,
     last |-> "none", failedAt |-> 0]

\* One iteration of the for loop from the response of the request on: the
\* state of the call at its next await, return or throw.
AfterResponse(c, r) ==
    LET c1 == [c EXCEPT !.requests = @ + 1, !.last = r]
    IN IF IsRateLimit(r) /\ RetryAllowed(c.attempt)
       THEN [c1 EXCEPT !.pc = "sleep", !.waits = Append(@, Backoff(c.attempt))]
       ELSE IF r = "audio"
       THEN [c1 EXCEPT !.pc = "download"]
       ELSE IF IsRateLimit(r)
       THEN [c1 EXCEPT !.pc = "thrown"]
       ELSE [c1 EXCEPT !.pc = "thrown", !.failedAt = c1.requests]

\* for (...; attempt <= MAX_RETRIES; ...)
LoopGoesOn_lt(attempt) == attempt < MAX_RETRIES
LoopGoesOn(attempt) == attempt <= MAX_RETRIES

\* continue; attempt++; attempt <= MAX_RETRIES, else throw 'Max retries exceeded'
AfterBackoff(c) ==
    IF LoopGoesOn(c.attempt + 1)
    THEN [c EXCEPT !.pc = "fetch", !.attempt = @ + 1]
    ELSE [c EXCEPT !.pc = "thrown", !.attempt = @ + 1, !.last = "max_retries"]

\* const audioResponse = await fetch(audioUrl); ... return Buffer.from(...)
AfterDownload(c, ok) ==
    IF ok THEN [c EXCEPT !.pc = "returned"]
    ELSE [c EXCEPT !.pc = "thrown", !.last = "download", !.failedAt = c.requests]

\* The record store of a run that synthesizes n texts of different hashes; the
\* run writes the audio as it comes (no ffmpeg on the PATH) and sleeps between
\* the requests of a worker (DELAY_MS at its default).
SynthStore(n) == [k \in 1..n |-> [tts |-> BigText(k), audio |-> 0]]

InitSynth ==
    /\ phase = "init"
    /\ \E n \in 1..SynthJobs :
          /\ questions = SynthStore(n)
          /\ syn = [i \in 0..(n - 1) |-> SynthFresh]
    /\ disk = {}
    /\ hasFFmpeg = FALSE
    /\ failing = {}
    /\ delay = TRUE
    /\ concurrency \in 1..MaxConcurrency
    /\ tasksLen = 0
    /\ nextIndex = 0
    /\ completed = 0
    /\ lastSave = 0
    /\ results = <<>>
    /\ wk = <<>>
    /\ checkpoints = <<>>
    /\ started = <<>>
    /\ outOfOrder = FALSE
    /\ toProcess = <<>>
    /\ skipped = 0
    /\ processed = 0
    /\ errors = 0
    /\ tret = <<>>
    /\ synthCalls = [t \in TextsOf(questions) |-> 0]
    /\ saved = questions
    /\ questions0 = questions
    /\ disk0 = disk
    /\ InitResolverIdle
    /\ InitToolsIdle

\* The job's task is running and its synthesize call has not settled.
Synthesizing(i) ==
    /\ phase = "pool"
    /\ i \in DOMAIN tret
    /\ started[i] > 0
    /\ tret[i] = Empty

\* synthesize threw: the catch clause of the task.
TaskCatch(i, message) ==
    /\ errors' = errors + 1
    /\ tret' = [tret EXCEPT ![i] = <<"error", message>>]
    /\ questions' = RefsOnFailure(questions, toProcess[i + 1].refs, toProcess[i + 1].hash)
    /\ syn' = [syn EXCEPT ![i] = SynthOver]
    /\ UNCHANGED processed

\* synthesize returned the audio: the rest of the try block.
TaskTry(i) ==
    /\ disk' = disk \cup {toProcess[i + 1].hash}
    /\ questions' = Wire(questions, toProcess[i + 1].refs, toProcess[i + 1].hash)
    /\ processed' = processed + 1
    /\ tret' = [tret EXCEPT ![i] = Ok]
    /\ syn' = [syn EXCEPT ![i] = SynthOver]
    /\ UNCHANGED errors

SynthFrame ==
    UNCHANGED <<resolverVars, toolVars, phase, poolVars, hasFFmpeg, failing, toProcess, skipped,
                synthCalls, saved, questions0, disk0>>

\* The request of the current attempt comes back with r: the call goes to its
\* next await, or throws into the catch clause of the task.
SynthResponse(i, r) ==
    /\ Synthesizing(i)
    /\ syn[i].pc = "fetch"
    /\ LET c == AfterResponse(syn[i], r)
       IN IF c.pc = "thrown"
          THEN TaskCatch(i, c.last) /\ UNCHANGED disk
          ELSE /\ syn' = [syn EXCEPT ![i] = c]
               /\ UNCHANGED <<questions, disk, processed, errors, tret>>
    /\ SynthFrame

\* await sleep(backoff) is over.
SynthBackoffEnds(i) ==
    /\ Synthesizing(i)
    /\ syn[i].pc = "sleep"
    /\ LET c == AfterBackoff(syn[i])
       IN IF c.pc = "thrown"
          THEN TaskCatch(i, c.last) /\ UNCHANGED disk
          ELSE /\ syn' = [syn EXCEPT ![i] = c]
               /\ UNCHANGED <<questions, disk, processed, errors, tret>>
    /\ SynthFrame

\* The download of the audio url fails: the call throws into the catch clause.
SynthDownloadFails(i) ==
    /\ Synthesizing(i)
    /\ syn[i].pc = "download"
    /\ TaskCatch(i, AfterDownload(syn[i], FALSE).last)
    /\ UNCHANGED disk
    /\ SynthFrame

\* The download succeeds: the call returns and the task writes the artifact.
SynthReturns(i) ==
    /\ Synthesizing(i)
    /\ syn[i].pc = "download"
    /\ AfterDownload(syn[i], TRUE).pc = "returned"
    /\ TaskTry(i)
    /\ SynthFrame

NextSynth ==
    \/ MainStart
    \/ \E i \in DOMAIN syn : \E r \in Responses : SynthResponse(i, r)
    \/ \E i \in DOMAIN syn : SynthBackoffEnds(i)
    \/ \E i \in DOMAIN syn : SynthDownloadFails(i)
    \/ \E i \in DOMAIN syn : SynthReturns(i)
    \/ \E w \in DOMAIN wk : WorkerResumes(w)
    \/ \E w \in DOMAIN wk : WorkerWakes(w)
    \/ MainFinish

SpecSynth == InitSynth /\ [][NextSynth]_vars

\* Every request is answered, every timer fires and every continuation runs.
FairSynth == SpecSynth /\ WF_vars(NextSynth)

\* ------------------------------------------------ properties of synthesize

RECURSIVE BackoffSchedule(_)
BackoffSchedule(k) == IF k = 0 THEN <<>> ELSE Append(BackoffSchedule(k - 1), 3000 * (2 ^ k))

\* The job's task settles in this step with the error message m.
FailsWith(i, m) == tret[i] = Empty /\ tret'[i] = <<"error", m>>

\* C11: synthesize retries only on a rate-limit signal and at most MAX_RETRIES
\* times: a call sends at most MAX_RETRIES + 1 requests (a rate-limit signal on
\* the last one is thrown), every wait follows a 429 or a 'Throttling' code,
\* the wait before retry k is 3000 * 2^k ms, and every call (hence the run)
\* comes to an end.
C11_Bounded ==
    \A i \in DOMAIN syn :
        /\ syn[i].requests <= MAX_RETRIES + 1
        /\ syn[i].attempt <= MAX_RETRIES
        /\ Len(syn[i].waits) <= MAX_RETRIES
        /\ syn[i].waits = BackoffSchedule(Len(syn[i].waits))
        /\ syn[i].pc = "fetch" => syn[i].requests = syn[i].attempt
        /\ syn[i].pc \in {"sleep", "download"} => syn[i].requests = syn[i].attempt + 1
        /\ syn[i].pc = "sleep" =>
              /\ syn[i].last \in {"429", "throttling"}
              /\ Len(syn[i].waits) = syn[i].attempt + 1
        /\ syn[i].pc \in {"fetch", "download"} => Len(syn[i].waits) = syn[i].attempt
C11_LastRequest ==
    \A i \in DOMAIN tret :
        (FailsWith(i, "429") \/ FailsWith(i, "throttling")) =>
            /\ syn[i].pc = "fetch"
            /\ syn[i].attempt = MAX_RETRIES
            /\ syn[i].waits = <<6000, 12000, 24000, 48000, 96000>>
C11_RetryBoundedTerminates ==
    /\ []C11_Bounded
    /\ [][C11_LastRequest]_vars
    /\ <>(phase = "done")
C11_Witness ==
    /\ phase = "done"
    /\ \E i \in DOMAIN tret : tret[i] = <<"error", "429">>

\* C40: when every request of a call gets a rate-limit signal, the call
\* fails on its sixth request (MAX_RETRIES + 1) with the error of that
\* response, and the throw of 'Max retries exceeded' after the loop is never
\* reached: a wait is always followed by another request.
C40_Step ==
    \A i \in DOMAIN tret :
        /\ (FailsWith(i, "429") \/ FailsWith(i, "throttling")) =>
              /\ syn[i].requests + 1 = MAX_RETRIES + 1
              /\ Len(syn[i].waits) = MAX_RETRIES
        /\ (syn[i].pc = "fetch" /\ syn[i].requests = MAX_RETRIES /\ syn'[i] # syn[i]) =>
              /\ syn'[i].pc \in {"download", "over"}
              /\ syn'[i].pc = "over" => tret'[i][1] = "error"
        /\ (syn[i].pc = "sleep" /\ syn'[i] # syn[i]) =>
              /\ syn'[i].pc = "fetch"
              /\ syn'[i].requests = syn[i].requests
              /\ tret'[i] = Empty
        /\ ~FailsWith(i, "max_retries")
C40_MaxRetriesUnreachable ==
    /\ [](\A i \in DOMAIN tret : tret[i] # <<"error", "max_retries">>)
    /\ [][C40_Step]_vars
C40_Witness ==
    \E i \in DOMAIN tret : tret[i] = <<"error", "throttling">>

\* The messages of the failures of a request that are not rate-limit signals.
OtherFailures == {"network", "http_error", "api_error", "bad_shape"}

\* C12: a failure that is not a rate-limit signal ends the call at once: no
\* call goes on (to a wait or to another request) after such a response; the
\* step that receives it, or a failed download, settles the job with status
\* 'error' and that message, counts one error and leaves the entries and the
\* pool as they are; and the other jobs still run.
C12_NoneGoesOn ==
    \A i \in DOMAIN syn : syn[i].last \notin OtherFailures
C12_Recorded ==
    \A i \in DOMAIN tret :
        /\ (\E m \in OtherFailures : FailsWith(i, m)) => syn[i].pc = "fetch"
        /\ FailsWith(i, "download") => syn[i].pc = "download"
        /\ (\E m \in OtherFailures \cup {"download"} : FailsWith(i, m)) =>
              /\ errors' = errors + 1
              /\ syn'[i] = SynthOver
              /\ UNCHANGED <<phase, poolVars, questions, disk, processed>>
C12_BatchContinues ==
    phase = "done" =>
        /\ \A i \in DOMAIN syn : started[i] = 1 /\ tret[i] # Empty /\ results[i] = tret[i]
        /\ errors = Cardinality({i \in DOMAIN syn : tret[i][1] = "error"})
        /\ processed = Cardinality({i \in DOMAIN syn : tret[i] = Ok})
C12_OtherFailureNotRetried ==
    /\ [](C12_NoneGoesOn /\ C12_BatchContinues)
    /\ [][C12_Recorded]_vars
C12_Witness ==
    /\ phase = "done"
    /\ \E i, j \in DOMAIN syn :
          /\ i < j
          /\ tret[i] = <<"error", "http_error">>
          /\ tret[j] = Ok

\* -------------------------------------------- the pronunciation resolvers
\* Three scripts resolve the pronunciation of the characters of the records:
\*   "deepseek"  dictionary-cached, skips the characters that have a ttsText
\*   "qwen"      dictionary-cached, skips the records that have pronunciation
\*   "plain"     scripts/generate_pronunciation.mjs: no dictionary, sequential
\* A record is [chars, has, pron]: chars is the set extractChineseChars finds
\* in its text and options, has tells whether the pronunciation field exists
\* and pron maps characters to entries [pinyin, ttsText] ("" for a missing
\* field).  A dictionary maps every character to the sequence of its readings
\* (<<>> for a character that is not a key).

Chars == {"a", "b"}
Pinyins == {"p1", "p2"}

\* The readings the external service may give for a character.
ReadingsOf(ch) == IF ch = "a" THEN Pinyins ELSE {"p1"}

NoPron == [ch \in {} |-> 0]
NoDict == [ch \in Chars |-> <<>>]

\* { ...old, ...new }: a field the new entry lacks keeps the old value
Spread(old, new) ==
    [pinyin |-> IF new.pinyin # "" THEN new.pinyin ELSE old.pinyin,
     ttsText |-> IF new.ttsText # "" THEN new.ttsText ELSE old.ttsText]

\* pronunciation[char] = { ...pronunciation[char], ...data }
Merge(pron, add) ==
    [ch \in (DOMAIN pron) \cup (DOMAIN add) |->
        IF ch \notin DOMAIN add THEN pron[ch]
        ELSE IF ch \in DOMAIN pron THEN Spread(pron[ch], add[ch])
        ELSE add[ch]]

\* dict[char].some(r => r.pinyin === pinyin)
HasReading_never(vs, p) == FALSE
HasReading(vs, p) == \E k \in 1..Len(vs) : vs[k].pinyin = p

\* if (!exists) dict[char].push({ pinyin, ttsText })
AddReading_replace(vs, e) == IF HasReading(vs, e.pinyin) THEN vs ELSE <<e>>
AddReading(vs, e) == IF HasReading(vs, e.pinyin) THEN vs ELSE Append(vs, e)

\* buildDictFromQuestions: the entries that are taken into the dictionary
Ingestible(v, e) ==
    IF v = "deepseek" THEN e.pinyin # "" /\ e.ttsText # "" ELSE e.pinyin # ""

\* buildDictFromQuestions: the entries of one record, in key order
RECURSIVE IngestRecord(_, _, _, _)
IngestRecord(v, d, q, todo) ==
    IF todo = {} THEN d
    ELSE LET ch == CHOOSE c \in todo : \A c2 \in todo : c = "a" \/ c2 # "a"
             d1 == IF ch \in DOMAIN q.pron /\ Ingestible(v, q.pron[ch])
                   THEN [d EXCEPT ![ch] = AddReading(@, q.pron[ch])]
                   ELSE d
         IN IngestRecord(v, d1, q, todo \ {ch})

\* buildDictFromQuestions: dict, from the dictionary file and the records
RECURSIVE BuildDict(_, _, _, _)
BuildDict(v, d, qs, k) ==
    IF k > Len(qs) THEN d
    ELSE BuildDict(v, IngestRecord(v, d, qs[k], Chars), qs, k + 1)

RECURSIVE SumLen(_, _)
SumLen(d, todo) ==
    IF todo = {} THEN 0
    ELSE LET ch == CHOOSE c \in todo : TRUE IN Len(d[ch]) + SumLen(d, todo \ {ch})

\* added++ for every push
AddedCount(d0, d1) == SumLen(d1, Chars) - SumLen(d0, Chars)

\* const isPolyphonic = (dict, char) => dict[char] && dict[char].length > 1
isPolyphonic_three(d, ch) == Len(d[ch]) > 2
isPolyphonic_one(d, ch) == Len(d[ch]) > 0
isPolyphonic(d, ch) == Len(d[ch]) > 1

\* question.pronunciation && Object.keys(question.pronunciation).length > 0
HasPronunciation_never(q) == FALSE
HasPronunciation(q) == q.has /\ DOMAIN q.pron # {}

\* !info?.ttsText
LacksTts_always(q, ch) == TRUE
LacksTts(q, ch) == ~(ch \in DOMAIN q.pron /\ q.pron[ch].ttsText # "")

\* The characters processQuestion sets out to resolve: needsTts in the
\* deepseek script; in the other two, all the characters of a record that
\* has no pronunciation and none of a record that has.
NeedsTts_any(v, q) == Chars
NeedsTts(v, q) ==
    IF v = "deepseek" THEN {ch \in q.chars : LacksTts(q, ch)}
    ELSE IF HasPronunciation(q) THEN {} ELSE q.chars

\* needsApi: unknown to the dictionary, or polyphonic
NeedsApi_all(v, d, needs) == needs
NeedsApi(v, d, needs) ==
    IF v = "plain" THEN needs
    ELSE {ch \in needs : d[ch] = <<>> \/ isPolyphonic(d, ch)}

\* resolved[char] = { ...dict[char][0] }
Resolved(v, d, needs) ==
    [ch \in needs \ NeedsApi(v, d, needs) |-> d[ch][1]]

\* processQuestion up to its await or its early return: the call's state.
\* lens records how many readings the dictionary had for each character when
\* it was consulted.
CallOf(v, q, d) ==
    LET needs == NeedsTts(v, q)
        api == NeedsApi(v, d, needs)
    IN [pc |-> IF needs = {} THEN "skipped" ELSE IF api = {} THEN "dict" ELSE "api",
        needs |-> needs,
        api |-> api,
        resolved |-> Resolved(v, d, needs),
        lens |-> [ch \in Chars |-> IF v = "plain" THEN 0 ELSE Len(d[ch])],
        calls |-> IF needs # {} /\ api # {} THEN 1 ELSE 0,
        got |-> NoPron]

\* processQuestion up to its await or its early return: the record.
RecordAtCall(v, q, d) ==
    LET needs == NeedsTts(v, q)
        api == NeedsApi(v, d, needs)
        res == Resolved(v, d, needs)
    IN IF needs = {} THEN q
       ELSE IF v = "deepseek" THEN [q EXCEPT !.has = TRUE, !.pron = Merge(q.pron, res)]
       ELSE IF api = {} THEN [q EXCEPT !.has = TRUE, !.pron = res]
       ELSE q

\* No run was interrupted.
NoHist == [kills |-> 0, asked |-> {}]

NotCalled ==
    [pc |-> "idle", needs |-> {}, api |-> {}, resolved |-> NoPron,
     lens |-> [ch \in Chars |-> 0], calls |-> 0, got |-> NoPron]

\* The value the task returns for a call that is over.
StatusOf(pc) == <<pc>>

\* What the external call can come back with: it throws, its content is not
\* JSON, or the content is an object with an entry for some of the characters
\* that were asked for.
ApiEntry(ch) == [pinyin : ReadingsOf(ch), ttsText : {"t1"}]
ApiObjects(api) ==
    UNION {{f \in [S -> [pinyin : Pinyins, ttsText : {"t1"}]] :
                \A ch \in S : f[ch] \in ApiEntry(ch)} : S \in SUBSET api}
ApiFailures == {"throws", "not json"}

\* The content is JSON but not of the shape the prompt asks for: a truthy
\* entry may lack the pinyin or the ttsText ("" stands for a missing field).
LooseEntry(ch) ==
    ApiEntry(ch) \cup {[pinyin |-> "p1", ttsText |-> ""], [pinyin |-> "", ttsText |-> "t1"]}
LooseObjects(api) ==
    UNION {{f \in [S -> [pinyin : Pinyins \cup {""}, ttsText : {"t1", ""}]] :
                \A ch \in S : f[ch] \in LooseEntry(ch)} : S \in SUBSET api}

\* The try block after the await: the record.
RecordOnOk(v, q, c, obj) ==
    IF v = "deepseek" THEN [q EXCEPT !.pron = Merge(q.pron, obj)]
    ELSE IF v = "qwen" THEN [q EXCEPT !.has = TRUE, !.pron = Merge(c.resolved, obj)]
    ELSE [q EXCEPT !.has = TRUE, !.pron = obj]

\* The try block after the await: the dictionary.
RECURSIVE DictOnOk(_, _, _)
DictOnOk(d, obj, todo) ==
    IF todo = {} THEN d
    ELSE LET ch == CHOOSE c \in todo : TRUE
         IN DictOnOk([d EXCEPT ![ch] = AddReading(@, obj[ch])], obj, todo \ {ch})

\* The catch block: the record.
RecordOnError_drop(v, q, c) == IF v = "deepseek" THEN [q EXCEPT !.pron = NoPron] ELSE q
RecordOnError(v, q, c) ==
    IF v = "qwen" /\ DOMAIN c.resolved # {}
    THEN [q EXCEPT !.has = TRUE, !.pron = c.resolved]
    ELSE q

\* The record stores and dictionary files of the model.
Fresh(cs) == [chars |-> cs, has |-> FALSE, pron |-> NoPron]
RecordShapes ==
    { Fresh({"a", "b"}),
      Fresh({}),
      [chars |-> {"a", "b"}, has |-> TRUE,
       pron |-> [ch \in {"a", "b"} |->
                   IF ch = "a" THEN [pinyin |-> "p1", ttsText |-> ""]
                   ELSE [pinyin |-> "p1", ttsText |-> "t0"]]],
      [chars |-> {"a", "b"}, has |-> TRUE,
       pron |-> [ch \in {"a", "b"} |->
                   IF ch = "a" THEN [pinyin |-> "p2", ttsText |-> "t0"]
                   ELSE [pinyin |-> "p1", ttsText |-> "t0"]]],
      [chars |-> {"a", "b"}, has |-> TRUE,
       pron |-> [ch \in {"b"} |-> [pinyin |-> "p1", ttsText |-> "t0"]]] }
ResolverStores == UNION {[1..n -> RecordShapes] : n \in 1..MaxRecords}
DictFiles ==
    { NoDict,
      [ch \in Chars |-> IF ch = "b" THEN <<[pinyin |-> "p1", ttsText |-> "t0"]>> ELSE <<>>],
      [ch \in Chars |-> <<[pinyin |-> "p1", ttsText |-> "t0"]>>],
      [ch \in Chars |-> IF ch = "a" THEN <<[pinyin |-> "p1", ttsText |-> "t0"],
                                           [pinyin |-> "p2", ttsText |-> "t0"]>>
                        ELSE <<>>] }

\* A resolver script starts on one of the record stores and dictionary files.
InitResolverOn(variants, stores, files) ==
    /\ phase = "init"
    /\ variant \in variants
    /\ questions \in stores
    /\ dictFile \in (IF variant = "plain" THEN {NoDict} ELSE files)
    /\ concurrency \in (IF variant = "plain" THEN {1} ELSE 1..MaxConcurrency)
    /\ dict = NoDict
    /\ dictAdded = 0
    /\ rt = [i \in 0..(Len(questions) - 1) |-> NotCalled]
    /\ saved = questions
    /\ questions0 = questions
    /\ tret = [i \in 0..(Len(questions) - 1) |-> Empty]
    /\ delay = FALSE
    /\ tasksLen = 0
    /\ nextIndex = 0
    /\ completed = 0
    /\ lastSave = 0
    /\ results = <<>>
    /\ wk = <<>>
    /\ checkpoints = <<>>
    /\ started = <<>>
    /\ outOfOrder = FALSE
    /\ disk = {}
    /\ hasFFmpeg = FALSE
    /\ failing = {}
    /\ toProcess = <<>>
    /\ skipped = 0
    /\ processed = 0
    /\ errors = 0
    /\ synthCalls = <<>>
    /\ disk0 = {}
    /\ syn = <<>>
    /\ hist = NoHist
    /\ InitToolsIdle

InitResolver == InitResolverOn({"deepseek", "qwen", "plain"}, ResolverStores, DictFiles)

ResolverFrame ==
    UNCHANGED <<variant, dictAdded, disk, hasFFmpeg, failing, toProcess, skipped,
                processed, errors, synthCalls, questions0, disk0, syn, hist, toolVars>>

\* The indices whose task is invoked in a step of the pool.
NewlyStarted(st0, st1) ==
    {i \in DOMAIN st1 : st1[i] > (IF i \in DOMAIN st0 THEN st0[i] ELSE 0)}

\* tasks[i]() for the tasks invoked in the step: each processQuestion runs up
\* to its await or to its return.
InvokeTasks(new, d) ==
    /\ rt' = [i \in DOMAIN rt |->
                IF i \in new THEN CallOf(variant, questions[i + 1], d) ELSE rt[i]]
    /\ questions' = [k \in 1..Len(questions) |->
                IF (k - 1) \in new THEN RecordAtCall(variant, questions[k], d)
                ELSE questions[k]]
    /\ tret' = [i \in DOMAIN tret |->
                IF i \in new /\ CallOf(variant, questions[i + 1], d).pc # "api"
                THEN StatusOf(CallOf(variant, questions[i + 1], d).pc)
                ELSE tret[i]]

\* needsProcessing.length === 0
NothingToProcess(v, qs) ==
    IF v = "deepseek"
    THEN \A k \in 1..Len(qs) :
            /\ qs[k].has
            /\ \A ch \in DOMAIN qs[k].pron : qs[k].pron[ch].ttsText # ""
    ELSE \A k \in 1..Len(qs) : HasPronunciation(qs[k])

\* main of a dictionary-cached resolver, from reading the files to
\* `await runPool(...)`, or to its early return.
ResolverStart ==
    /\ phase = "init"
    /\ variant \in {"deepseek", "qwen"}
    /\ LET d == BuildDict(variant, dictFile, questions, 1)
       IN /\ dict' = d
          /\ dictAdded' = AddedCount(dictFile, d)
          /\ IF NothingToProcess(variant, questions)
             THEN /\ dictFile' = d
                  /\ phase' = "done"
                  /\ UNCHANGED <<poolVars, questions, rt, tret>>
             ELSE /\ PoolStart(Len(questions))
                  /\ InvokeTasks(NewlyStarted(<<>>, started'), d)
                  /\ phase' = "pool"
                  /\ UNCHANGED dictFile
    /\ UNCHANGED <<variant, saved, disk, hasFFmpeg, failing, toProcess, skipped,
                   processed, errors, synthCalls, questions0, disk0, syn, hist, toolVars>>

\* Promise continuations run before the next response is delivered: no
\* worker is waiting on a task that has settled.
NoneResumable ==
    \A w \in DOMAIN wk : wk[w].pc = "await" => tret[wk[w].i] = Empty

\* The external call of record i comes back with a JSON object: the rest of
\* the try block.
ApiAnswers(i, obj) ==
    /\ phase = "pool"
    /\ NoneResumable
    /\ rt[i].pc = "api"
    /\ questions' = [questions EXCEPT ![i + 1] = RecordOnOk(variant, @, rt[i], obj)]
    /\ dict' = IF variant = "plain" THEN dict ELSE DictOnOk(dict, obj, DOMAIN obj)
    /\ rt' = [rt EXCEPT ![i].pc = "ok", ![i].got = obj]
    /\ tret' = [tret EXCEPT ![i] = StatusOf("ok")]
    /\ UNCHANGED <<phase, poolVars, dictFile, saved>>
    /\ ResolverFrame

\* The external call of record i throws, or its content is not JSON: the
\* catch block.
ApiFails(i, f) ==
    /\ phase = "pool"
    /\ NoneResumable
    /\ rt[i].pc = "api"
    /\ questions' = [questions EXCEPT ![i + 1] = RecordOnError(variant, @, rt[i])]
    /\ rt' = [rt EXCEPT ![i].pc = "error"]
    /\ tret' = [tret EXCEPT ![i] = <<"error", f>>]
    /\ UNCHANGED <<phase, poolVars, dict, dictFile, saved>>
    /\ ResolverFrame

\* The worker's continuation after the task of its record settled; a due
\* checkpoint runs saveProgress, which rewrites questions.json and the
\* dictionary file; then the worker invokes the task of the next record.
ResolverWorkerResumes(w) ==
    /\ phase = "pool"
    /\ variant \in {"deepseek", "qwen"}
    /\ wk[w].pc = "await"
    /\ tret[wk[w].i] # Empty
    /\ PoolResume(w, tret[wk[w].i])
    /\ saved' = IF Len(checkpoints') > Len(checkpoints) THEN questions ELSE saved
    /\ dictFile' = IF Len(checkpoints') > Len(checkpoints) THEN dict ELSE dictFile
    /\ InvokeTasks(NewlyStarted(started, started'), dict)
    /\ UNCHANGED <<phase, dict>>
    /\ ResolverFrame

\* runPool returned: the final save of the records and of the dictionary.
ResolverFinish ==
    /\ phase = "pool"
    /\ variant \in {"deepseek", "qwen"}
    /\ AllWorkersDone
    /\ saved' = questions
    /\ dictFile' = dict
    /\ phase' = "done"
    /\ UNCHANGED <<poolVars, questions, dict, rt, tret>>
    /\ ResolverFrame

\* scripts/generate_pronunciation.mjs, main: for (i ...) { await
\* processQuestion(questions[i]); if (i < length - 1) await sleep(200) }.
\* wk holds the position of the loop, nextIndex is i.
PlainStart ==
    /\ phase = "init"
    /\ variant = "plain"
    /\ tasksLen' = Len(questions)
    /\ nextIndex' = 0
    /\ wk' = <<[pc |-> "await", i |-> 0]>>
    /\ started' = [i \in 0..(Len(questions) - 1) |-> IF i = 0 THEN 1 ELSE 0]
    /\ InvokeTasks({0}, dict)
    /\ phase' = "pool"
    /\ UNCHANGED <<concurrency, delay, completed, lastSave, results, checkpoints,
                   outOfOrder, dict, dictFile, saved>>
    /\ ResolverFrame

\* processQuestion(questions[i]) is over: sleep, or leave the loop and save.
PlainNext ==
    /\ phase = "pool"
    /\ variant = "plain"
    /\ wk[1].pc = "await"
    /\ tret[nextIndex] # Empty
    /\ IF nextIndex < tasksLen - 1
       THEN /\ wk' = <<[pc |-> "sleep", i |-> nextIndex]>>
            /\ UNCHANGED <<phase, saved>>
       ELSE /\ wk' = <<[pc |-> "done", i |-> -1]>>
            /\ saved' = questions
            /\ phase' = "done"
    /\ UNCHANGED <<tasksLen, concurrency, delay, nextIndex, completed, lastSave,
                   results, checkpoints, started, outOfOrder,
                   questions, dict, dictFile, rt, tret>>
    /\ ResolverFrame

\* The sleep is over: i++ and the next processQuestion.
PlainSleepEnds ==
    /\ phase = "pool"
    /\ variant = "plain"
    /\ wk[1].pc = "sleep"
    /\ nextIndex' = nextIndex + 1
    /\ wk' = <<[pc |-> "await", i |-> nextIndex + 1]>>
    /\ started' = [started EXCEPT ![nextIndex + 1] = @ + 1]
    /\ InvokeTasks({nextIndex + 1}, dict)
    /\ UNCHANGED <<tasksLen, concurrency, delay, completed, lastSave, results,
                   checkpoints, outOfOrder, phase, dict, dictFile, saved>>
    /\ ResolverFrame

\* A new process starts on the files the last one left.
ReadFilesAgain ==
    /\ phase' = "init"
    /\ questions' = saved
    /\ questions0' = saved
    /\ dict' = NoDict
    /\ dictAdded' = 0
    /\ rt' = [i \in DOMAIN rt |-> NotCalled]
    /\ tret' = [i \in DOMAIN tret |-> Empty]
    /\ tasksLen' = 0
    /\ nextIndex' = 0
    /\ completed' = 0
    /\ lastSave' = 0
    /\ results' = <<>>
    /\ wk' = <<>>
    /\ checkpoints' = <<>>
    /\ started' = <<>>
    /\ outOfOrder' = FALSE
    /\ UNCHANGED <<variant, concurrency, delay, dictFile, saved, disk, hasFFmpeg,
                   failing, toProcess, skipped, processed, errors, synthCalls,
                   disk0, syn, hist, toolVars>>

\* The script is run again on the files the last run left.
ResolverRerun ==
    /\ phase = "done"
    /\ ReadFilesAgain

NextResolver ==
    \/ ResolverRerun
    \/ ResolverStart
    \/ \E i \in DOMAIN rt : \E obj \in ApiObjects(rt[i].api) : ApiAnswers(i, obj)
    \/ \E i \in DOMAIN rt : \E f \in ApiFailures : ApiFails(i, f)
    \/ \E w \in DOMAIN wk : ResolverWorkerResumes(w)
    \/ ResolverFinish
    \/ PlainStart
    \/ PlainNext
    \/ PlainSleepEnds

SpecResolver == InitResolver /\ [][NextResolver]_vars

\* The resolvers when the external service does not keep to the format.
NextLoose ==
    \/ ResolverRerun
    \/ ResolverStart
    \/ \E i \in DOMAIN rt : \E obj \in LooseObjects(rt[i].api) : ApiAnswers(i, obj)
    \/ \E i \in DOMAIN rt : \E f \in ApiFailures : ApiFails(i, f)
    \/ \E w \in DOMAIN wk : ResolverWorkerResumes(w)
    \/ ResolverFinish
    \/ PlainStart
    \/ PlainNext
    \/ PlainSleepEnds

SpecLoose == InitResolver /\ [][NextLoose]_vars

\* One run of a dictionary-cached resolver on a store with one record more
\* than there are workers, so that a worker starts a record while a request
\* of another worker is in flight.
SharedRecords == MaxConcurrency + 1
SharedStores == [1..SharedRecords -> {Fresh({"a"}), Fresh({"a", "b"})}]

SharedDicts == {d \in DictFiles : d["a"] = <<>>}

InitShared == InitResolverOn({"deepseek", "qwen"}, SharedStores, SharedDicts)

NextShared ==
    \/ ResolverStart
    \/ \E i \in DOMAIN rt : \E obj \in ApiObjects(rt[i].api) : ApiAnswers(i, obj)
    \/ \E i \in DOMAIN rt : \E f \in ApiFailures : ApiFails(i, f)
    \/ \E w \in DOMAIN wk : ResolverWorkerResumes(w)
    \/ ResolverFinish

SpecShared == InitShared /\ [][NextShared]_vars

\* ------------------------------------ a resolver interrupted and run again
\* The store is one record longer than the checkpoint interval.  The first
\* two records may hold the character "a", which the dictionary file does not
\* know; all the others hold "b" only, which it knows with one reading.  The
\* outcome of the external call for a record is fixed: Oracle.

ResumeRecords == SAVE_INTERVAL + 1

Oracle(i) ==
    [ch \in Chars |->
        [pinyin |-> IF ch = "a" /\ i > 0 THEN "p2" ELSE "p1", ttsText |-> "t1"]]
OracleObject(i, api) == [ch \in api |-> Oracle(i)[ch]]

ResumeStores ==
    {[k \in 1..ResumeRecords |->
        IF k = 1 THEN r1 ELSE IF k = 2 THEN r2 ELSE Fresh({"b"})] :
            r1, r2 \in {Fresh({"a", "b"}), Fresh({"b"})}}
ResumeDict ==
    [ch \in Chars |-> IF ch = "b" THEN <<[pinyin |-> "p1", ttsText |-> "t0"]>> ELSE <<>>]

InitResume == InitResolverOn({"deepseek", "qwen"}, ResumeStores, {ResumeDict})

\* The external call of record i comes back with its outcome.
OracleAnswers(i) == ApiAnswers(i, OracleObject(i, rt[i].api))

\* The process is killed while runPool is awaited: all that is left is the
\* files.  asked keeps the requests the killed process had sent.
Interrupt ==
    /\ phase = "pool"
    /\ hist.kills < MaxKills
    /\ phase' = "killed"
    /\ hist' = [kills |-> hist.kills + 1,
                asked |-> hist.asked \cup
                    {x \in (DOMAIN rt) \X Chars :
                        rt[x[1]].pc \in {"api", "ok"} /\ x[2] \in rt[x[1]].api}]
    /\ UNCHANGED <<poolVars, audioVars, syn, toolVars, variant, dict, dictFile,
                   dictAdded, rt>>

\* The script is started again after the kill.
Restart ==
    /\ phase = "killed"
    /\ ReadFilesAgain

NextResume ==
    \/ ResolverStart
    \/ \E i \in DOMAIN rt : OracleAnswers(i)
    \/ \E w \in DOMAIN wk : ResolverWorkerResumes(w)
    \/ ResolverFinish
    \/ Interrupt
    \/ Restart

SpecResume == InitResume /\ [][NextResume]_vars

\* ------------------------------------------- properties of the resolvers

DictVariant == variant \in {"deepseek", "qwen"}

\* The entry of character ch in record q, as a one-element tuple (<<>>: none).
EntryOf(q, ch) == IF ch \in DOMAIN q.pron THEN <<q.pron[ch]>> ELSE <<>>

\* The entry of ch in record q has a populated ttsText.
Settled(q, ch) == ch \in DOMAIN q.pron /\ q.pron[ch].ttsText # ""

\* The characters the call of record i had to resolve: in the deepseek script
\* the characters of the record without a populated ttsText, in the other
\* scripts the characters of a record that had no pronunciation.
StillNeeded(i) ==
    LET q == questions0[i + 1]
    IN IF variant = "deepseek" THEN {ch \in q.chars : ~Settled(q, ch)}
       ELSE IF DOMAIN q.pron = {} THEN q.chars ELSE {}

Called(i) == rt[i].pc # "idle"

\* C13: a character that processQuestion has to resolve and for which the
\* dictionary holds 2 or more readings when it is consulted is put in the
\* external request and its entry is never copied from the dictionary: the
\* entry stays as it was until the response, and then is the response's.
C13_AmbiguousNeverFromDict ==
    DictVariant =>
        \A i \in DOMAIN rt :
            \A ch \in StillNeeded(i) :
                (Called(i) /\ rt[i].lens[ch] >= 2) =>
                    /\ ch \in rt[i].api
                    /\ ch \notin DOMAIN rt[i].resolved
                    /\ rt[i].calls = 1
                    /\ EntryOf(questions[i + 1], ch) =
                          IF ch \in DOMAIN rt[i].got THEN <<rt[i].got[ch]>>
                          ELSE EntryOf(questions0[i + 1], ch)
C13_Witness ==
    /\ DictVariant
    /\ \E i \in DOMAIN rt :
          /\ rt[i].pc = "ok"
          /\ rt[i].lens["a"] = 2
          /\ rt[i].lens["b"] = 1
          /\ StillNeeded(i) = {"a", "b"}
          /\ "a" \in DOMAIN rt[i].got
          /\ questions[i + 1].pron["b"] = dict["b"][1]

C15_OneExactRequest ==
    \A i \in DOMAIN rt :
        /\ rt[i].calls <= 1
        /\ i \in DOMAIN started => started[i] <= 1
        /\ rt[i].calls = 1 =>
              /\ rt[i].api = {ch \in StillNeeded(i) : rt[i].lens[ch] # 1}
              /\ \A ch \in rt[i].api : ~Settled(questions0[i + 1], ch)
        /\ rt[i].calls = 0 => rt[i].pc \in {"idle", "skipped", "dict"}
C15_Witness ==
    /\ variant = "deepseek"
    /\ \E i \in DOMAIN rt :
          /\ rt[i].pc = "ok"
          /\ rt[i].api = {"a"}
          /\ Settled(questions0[i + 1], "b")
          /\ rt[i].lens["b"] = 1
          /\ rt[i].lens["a"] = 0

\* C16: no resolver modifies an entry whose ttsText is populated when the
\* run starts: neither the merge of the dictionary's readings nor the merge
\* of the external response writes to it.
C16_SettledUntouched ==
    \A k \in 1..Len(questions) :
        \A ch \in Chars :
            Settled(questions0[k], ch) =>
                EntryOf(questions[k], ch) = EntryOf(questions0[k], ch)
C16_Witness ==
    /\ variant = "deepseek"
    /\ \E i \in DOMAIN rt :
          /\ rt[i].pc = "ok"
          /\ Settled(questions0[i + 1], "b")
          /\ questions[i + 1].pron["b"].ttsText = "t0"
          /\ "a" \in DOMAIN rt[i].got
          /\ questions[i + 1].pron["a"] = rt[i].got["a"]
          /\ questions[i + 1].pron["a"] # questions0[i + 1].pron["a"]

\* Every character of every record has a populated entry when the run starts.
FullyResolved ==
    \A k \in 1..Len(questions0) :
        \A ch \in questions0[k].chars : Settled(questions0[k], ch)

\* C17: a run on a record set in which every character of every record has
\* a populated entry (as an earlier run leaves it when every response was
\* complete) makes no external call and leaves every PronunciationMap as it
\* was, in memory and in questions.json.
C17_RerunIsIdentity ==
    FullyResolved =>
        /\ \A i \in DOMAIN rt : rt[i].calls = 0
        /\ \A k \in 1..Len(questions) :
              /\ questions[k].pron = questions0[k].pron
              /\ saved[k].pron = questions0[k].pron
C17_Witness ==
    /\ FullyResolved
    /\ phase = "done"
    /\ \A i \in DOMAIN rt : rt[i].pc = "skipped"
    /\ \E k \in 1..Len(questions) :
          /\ questions0[k].chars = {"a", "b"}
          /\ questions0[k].pron["a"].ttsText = "t1"

IsPrefix(u, v) == Len(u) <= Len(v) /\ \A k \in 1..Len(u) : u[k] = v[k]
ReadingsIn(vs) == {vs[k].pinyin : k \in 1..Len(vs)}

\* C18: the dictionary only grows.  buildDictFromQuestions keeps every
\* reading of the dictionary file and returns the number of readings it
\* added; no other step of a run removes or replaces a reading of the
\* dictionary, and no save removes one from the dictionary file.
C18_Step ==
    /\ (phase = "init" /\ phase' # "init" /\ DictVariant) =>
          /\ \A ch \in Chars : IsPrefix(dictFile[ch], dict'[ch])
          /\ dictAdded' = Cardinality({<<ch, p>> \in Chars \X Pinyins :
                              p \in ReadingsIn(dict'[ch]) \ ReadingsIn(dictFile[ch])})
    /\ (phase # "init" /\ phase' # "init") =>
          \A ch \in Chars : IsPrefix(dict[ch], dict'[ch])
    /\ \A ch \in Chars : IsPrefix(dictFile[ch], dictFile'[ch])
C18_DictionaryOnlyGrows == [][C18_Step]_vars
C18_Witness ==
    /\ DictVariant
    /\ phase = "done"
    /\ dictAdded >= 1
    /\ \E i \in DOMAIN rt : rt[i].lens["a"] = 0 /\ rt[i].pc = "ok" /\ "a" \in DOMAIN rt[i].got
    /\ \E j \in DOMAIN rt : rt[j].lens["a"] = 1 /\ rt[j].pc = "dict"

NoDuplicateReading(d) ==
    \A ch \in Chars :
        \A j, k \in 1..Len(d[ch]) : j # k => d[ch][j].pinyin # d[ch][k].pinyin

\* C19: no character has two dictionary variants with the same pinyin, in
\* the dictionary in memory and in the dictionary file, in every state of a
\* run: after buildDictFromQuestions and after every interleaving of the
\* concurrent processQuestion calls.
C19_ReadingsDistinct ==
    phase # "init" => (NoDuplicateReading(dict) /\ NoDuplicateReading(dictFile))
C19_Witness ==
    /\ DictVariant
    /\ phase = "done"
    /\ Len(dict["a"]) = 1
    /\ \E i, j \in DOMAIN rt :
          /\ i # j
          /\ rt[i].pc = "ok" /\ rt[j].pc = "ok"
          /\ rt[i].lens["a"] = 0 /\ rt[j].lens["a"] = 0
          /\ "a" \in DOMAIN rt[i].got /\ "a" \in DOMAIN rt[j].got
          /\ rt[i].got["a"].pinyin = rt[j].got["a"].pinyin

\* C20: when the external call of a record throws or its content is not
\* JSON, the record keeps the entries resolved from the dictionary (and its
\* other entries as they were), the job's result has status 'error', the
\* dictionary is left as it is, and the remaining records are processed.
C20_Step ==
    \A i \in DOMAIN rt :
        (DictVariant /\ rt[i].pc = "api" /\ rt'[i].pc = "error") =>
            /\ dict' = dict
            /\ tret'[i][1] = "error"
            /\ \A ch \in Chars :
                  EntryOf(questions'[i + 1], ch) =
                     IF ch \in DOMAIN rt[i].resolved THEN <<rt[i].resolved[ch]>>
                     ELSE EntryOf(questions0[i + 1], ch)
            /\ \A k \in 1..Len(questions) : k # i + 1 => questions'[k] = questions[k]
C20_Kept ==
    DictVariant =>
        /\ \A i \in DOMAIN rt :
              rt[i].pc = "error" =>
                 /\ results[i] \in {Empty, <<"error", "throws">>, <<"error", "not json">>}
                 /\ \A ch \in DOMAIN rt[i].resolved :
                       EntryOf(questions[i + 1], ch) = <<rt[i].resolved[ch]>>
        /\ (phase = "done" /\ tasksLen > 0) =>
              \A i \in DOMAIN rt : started[i] = 1 /\ Called(i) /\ results[i] = tret[i]
C20_ErrorKeepsDictEntries ==
    /\ []C20_Kept
    /\ [][C20_Step]_vars
C20_Witness ==
    /\ DictVariant
    /\ phase = "done"
    /\ \E i, j \in DOMAIN rt :
          /\ i < j
          /\ rt[i].pc = "error"
          /\ rt[i].resolved # NoPron
          /\ "b" \in DOMAIN saved[i + 1].pron
          /\ "a" \notin DOMAIN saved[i + 1].pron
          /\ rt[j].pc = "ok"

\* C22: a record whose text and options hold no CJK character is never sent
\* to the external service: its call returns 'skipped' without a request, and
\* the record's pronunciation map is empty after the run.
C22_NoCharsNeverSent ==
    \A i \in DOMAIN rt :
        (questions0[i + 1].chars = {} /\ Called(i)) =>
            /\ rt[i].pc = "skipped"
            /\ rt[i].calls = 0
            /\ rt[i].api = {}
            /\ tret[i] = <<"skipped">>
            /\ DOMAIN questions[i + 1].pron = {}
            /\ (phase = "done" => DOMAIN saved[i + 1].pron = {})
C22_Witness ==
    /\ phase = "done"
    /\ \E i, j \in DOMAIN rt :
          /\ questions0[i + 1].chars = {}
          /\ rt[i].pc = "skipped"
          /\ rt[j].pc = "ok"
          /\ DOMAIN saved[j + 1].pron = {"a", "b"}
          /\ DOMAIN saved[i + 1].pron = {}

\* In this run no external call failed and every response had an entry for
\* every character that was asked for.
AnsweredCorrectly ==
    \A i \in DOMAIN rt :
        /\ rt[i].pc # "error"
        /\ rt[i].pc = "ok" => DOMAIN rt[i].got = rt[i].api

\* C34: a run attempts every record that still has a character without a
\* populated ttsText, so a run in which the external service answers every
\* request completely ends with every character of every record resolved,
\* also on records an earlier run left incomplete.
C34_IncompleteRetried ==
    (phase = "done" /\ DictVariant /\ AnsweredCorrectly) =>
        \A k \in 1..Len(questions) :
            \A ch \in questions[k].chars : Settled(questions[k], ch)

\* The records whose external request of this run includes ch.
Requested(ch) == {i \in DOMAIN rt : ch \in rt[i].api}

\* So far the external service answered every request that included ch, and
\* always with the same reading.
SameReading(ch) ==
    /\ \A i \in Requested(ch) :
          /\ rt[i].pc # "error"
          /\ rt[i].pc = "ok" => ch \in DOMAIN rt[i].got
    /\ \A i, j \in Requested(ch) :
          (rt[i].pc = "ok" /\ rt[j].pc = "ok") => rt[i].got[ch].pinyin = rt[j].got[ch].pinyin

\* C35: in a run with concurrency >= 2, a character the dictionary does not
\* have when the run starts and for which the external service always gives
\* the same reading is in the external request of at most one record.
C35_AskedOnce ==
    (phase = "pool" /\ DictVariant /\ concurrency >= 2) =>
        \A ch \in Chars :
            (BuildDict(variant, dictFile, questions0, 1)[ch] = <<>> /\ SameReading(ch)) =>
                Cardinality(Requested(ch)) <= 1

\* C36: at the end of a run no record entry that was copied from the
\* dictionary during the run belongs to a character for which the final
\* dictionary has 2 or more readings, whatever the interleaving of the workers.
C36_CopiedNotAmbiguous ==
    (phase = "done" /\ DictVariant) =>
        \A i \in DOMAIN rt :
            \A ch \in (DOMAIN rt[i].resolved) \cap (DOMAIN questions[i + 1].pron) :
                Len(dict[ch]) < 2

\* --------------------------- properties of the resolvers, loose responses

\* A response entry that lacks the pinyin or the ttsText.
Malformed(e) == e.pinyin = "" \/ e.ttsText = ""

\* C21: a response entry that lacks the pinyin or the ttsText is not used:
\* the try block leaves the record's entry for that character and the
\* dictionary's readings of that character as they were.
C21_Step ==
    \A i \in DOMAIN rt :
        (rt[i].pc = "api" /\ rt'[i].pc = "ok") =>
            \A ch \in DOMAIN rt'[i].got :
                Malformed(rt'[i].got[ch]) =>
                    /\ EntryOf(questions'[i + 1], ch) = EntryOf(questions[i + 1], ch)
                    /\ dict'[ch] = dict[ch]
C21_MalformedNotUsed == [][C21_Step]_vars

\* ------------------------------------------------- the filter scripts
\* Two scripts remove records from questions.json and re-index the rest: one
\* by a static list of identifiers ("static"), one by the verdicts of an
\* external reviewer on batches of records ("llm").  A record is [id, key]:
\* key stands for its content and never changes.

InitPoolIdle ==
    /\ tasksLen = 0
    /\ concurrency = 1
    /\ delay = FALSE
    /\ nextIndex = 0
    /\ completed = 0
    /\ lastSave = 0
    /\ results = <<>>
    /\ wk = <<>>
    /\ checkpoints = <<>>
    /\ started = <<>>
    /\ outOfOrder = FALSE

InitCoreIdle ==
    /\ InitPoolIdle
    /\ InitAudioIdle
    /\ syn = <<>>
    /\ InitResolverIdle

\* const removeIds = new Map([...])
removeIds == {45, 55, 72, 85, 91, 98, 99, 103, 51, 64, 86, 89, 68, 108, 109, 43, 31}

\* The store of the published data set, identifiers 1..113.
PublishedSize == 113

DenseStore(n) == [k \in 1..n |-> [id |-> k, key |-> k]]
SparseStore ==
    <<[id |-> 31, key |-> 1], [id |-> 7, key |-> 2],
      [id |-> 45, key |-> 3], [id |-> 200, key |-> 4]>>

FilterSizes == {0, 1, 2, BATCH_SIZE, BATCH_SIZE + 1, MaxFilterRecords}
FilterStores(script) ==
    {DenseStore(n) : n \in FilterSizes} \cup {SparseStore}
        \cup (IF script = "static" THEN {DenseStore(PublishedSize)} ELSE {})

\* filtered.forEach((q, i) => { q.id = i + 1; })
Reindex_keep(rs) == rs
Reindex(rs) == [i \in 1..Len(rs) |-> [rs[i] EXCEPT !.id = i]]

\* questions.filter(q => !removeIds.has(q.id))
StaticKeeps(q) == q.id \notin removeIds

\* const result = allResults.get(q.id); if (!result || result.keep) kept.push(q)
LlmKeeps(all, q) == q.id \notin DOMAIN all \/ all[q.id]

Keys(rs) == {rs[i].key : i \in 1..Len(rs)}

\* for (let i = 0; i < questions.length; i += BATCH_SIZE) batches.push(...)
NumBatches(n) == (n + BATCH_SIZE - 1) \div BATCH_SIZE
BatchIds(rs, b) ==
    {rs[k].id : k \in {j \in 1..Len(rs) : (j - 1) \div BATCH_SIZE = b}}

\* What processBatch returns for a batch, as the map from the ids of its
\* results to their keep flags: all kept (also on an error or an unexpected
\* format), the smallest id rejected, every id rejected, no result at all,
\* or one verdict for an id that may belong to another batch.
BatchResults(ids) ==
    { [i \in ids |-> TRUE],
      [i \in ids |-> \E j \in ids : j < i],
      [i \in ids |-> FALSE],
      [i \in {} |-> TRUE],
      [i \in {1} |-> FALSE] }

\* What the call of processBatch meets: the API call throws ("error"), the
\* response holds no array ("format"), or it holds the array res ("array").
BatchOutcomes(ids) ==
    {[kind |-> k, res |-> <<>>] : k \in {"error", "format"}}
        \cup {[kind |-> "array", res |-> r] : r \in BatchResults(ids)}

\* processBatch: the array of the response, or keep: true for every question
\* of the batch on an error and on an unexpected format.
processBatch(ids, out) ==
    IF out.kind = "array" THEN out.res ELSE [i \in ids |-> TRUE]

\* for (const r of results) allResults.set(r.id, ...)
SetAll(all, res) ==
    [i \in (DOMAIN all) \cup (DOMAIN res) |-> IF i \in DOMAIN res THEN res[i] ELSE all[i]]

InitFilter ==
    /\ phase = "init"
    /\ \E script \in {"static", "llm"} :
          /\ recs \in FilterStores(script)
          /\ fil = [script |-> script, orig |-> recs, nextBatch |-> 0, wk |-> <<>>,
                    allResults |-> [i \in {} |-> TRUE], rejected |-> {},
                    fallback |-> {}, verdicts |-> {}]
    /\ ext = <<>>
    /\ ui = <<>>
    /\ tts = <<>>
    /\ InitCoreIdle

\* The static script, from reading questions.json to writing it.
StaticFilter ==
    /\ phase = "init"
    /\ fil.script = "static"
    /\ LET filtered == SelectSeq(recs, StaticKeeps)
       IN /\ recs' = Reindex(filtered)
          /\ fil' = [fil EXCEPT !.rejected = Keys(recs) \ Keys(filtered)]
    /\ phase' = "done"
    /\ UNCHANGED <<coreVars, ext, ui, tts>>

\* The worker loop: while (nextBatch < batches.length) { idx = nextBatch++;
\* await processBatchWrapper(idx) }, up to the await.
WorkerTakes(f, w) ==
    IF f.nextBatch < NumBatches(Len(f.orig))
    THEN [f EXCEPT !.wk[w] = [pc |-> "await", idx |-> f.nextBatch],
                   !.nextBatch = @ + 1]
    ELSE [f EXCEPT !.wk[w] = [pc |-> "done", idx |-> -1]]

RECURSIVE SpawnWorkers(_, _, _)
SpawnWorkers(f, w, n) ==
    IF w > n THEN f ELSE SpawnWorkers(WorkerTakes(f, w), w + 1, n)

\* main of the reviewing script, from reading questions.json to
\* `await Promise.all(workers)`.
LlmStart ==
    /\ phase = "init"
    /\ fil.script = "llm"
    /\ LET n == Min(CONCURRENCY, NumBatches(Len(recs)))
           f0 == [fil EXCEPT !.wk = [w \in 1..n |-> [pc |-> "new", idx |-> -1]]]
       IN fil' = SpawnWorkers(f0, 1, n)
    /\ phase' = "pool"
    /\ UNCHANGED <<coreVars, recs, ext, ui, tts>>

\* processBatch of worker w's batch returns: processBatchWrapper records the
\* verdicts and the worker takes the next batch.
\* fallback and verdicts are history: the batches that were kept whole on an
\* error or an unexpected format, and the verdicts that responses carried.
BatchReturns(w, out) ==
    /\ phase = "pool"
    /\ fil.script = "llm"
    /\ fil.wk[w].pc = "await"
    /\ LET res == processBatch(BatchIds(fil.orig, fil.wk[w].idx), out)
       IN fil' = WorkerTakes(
                    [fil EXCEPT !.allResults = SetAll(@, res),
                                !.fallback = IF out.kind = "array" THEN @
                                             ELSE @ \cup {fil.wk[w].idx},
                                !.verdicts = IF out.kind # "array" THEN @
                                             ELSE @ \cup {<<i, res[i]>> : i \in DOMAIN res}],
                    w)
    /\ UNCHANGED <<phase, coreVars, recs, ext, ui, tts>>

\* Promise.all(workers) resolved: split, re-number and save.
LlmFinish ==
    /\ phase = "pool"
    /\ fil.script = "llm"
    /\ \A w \in DOMAIN fil.wk : fil.wk[w].pc = "done"
    /\ LET Keeps(q) == LlmKeeps(fil.allResults, q)
           kept == SelectSeq(recs, Keeps)
       IN /\ recs' = Reindex(kept)
          /\ fil' = [fil EXCEPT !.rejected = Keys(recs) \ Keys(kept)]
    /\ phase' = "done"
    /\ UNCHANGED <<coreVars, ext, ui, tts>>

NextFilter ==
    \/ StaticFilter
    \/ LlmStart
    \/ \E w \in DOMAIN fil.wk :
          \E out \in BatchOutcomes(BatchIds(fil.orig, fil.wk[w].idx)) : BatchReturns(w, out)
    \/ LlmFinish

SpecFilter == InitFilter /\ [][NextFilter]_vars

\* ------------------------------------- properties of the filter scripts

\* The records of the original store the script had to remove.
ToRemove ==
    {fil.orig[k].key : k \in {j \in 1..Len(fil.orig) :
        IF fil.script = "static" THEN fil.orig[j].id \in removeIds
        ELSE fil.orig[j].id \in DOMAIN fil.allResults /\ ~fil.allResults[fil.orig[j].id]}}

\* C24: after a filter script has run, the n records that remain carry the
\* identifiers 1..n in sequence, they are in the relative order they had
\* before, and they are exactly the records that were not removed.
C24_DenseReindex ==
    phase = "done" =>
        /\ \A i \in 1..Len(recs) : recs[i].id = i
        /\ \A i, j \in 1..Len(recs) : i < j => recs[i].key < recs[j].key
        /\ Keys(recs) = Keys(fil.orig) \ ToRemove
        /\ fil.rejected = ToRemove
C24_Witness ==
    /\ phase = "done"
    /\ fil.script = "llm"
    /\ Len(fil.orig) = MaxFilterRecords
    /\ Len(recs) = MaxFilterRecords - 2
    /\ {1, BATCH_SIZE + 1} \subseteq ToRemove

\* C25: the static script turns the 113-record store with identifiers 1..113
\* into 95 records with identifiers 1..95 in the original relative order,
\* having removed 18 records.
C25_PublishedSetTo95 ==
    (phase = "done" /\ fil.script = "static" /\ fil.orig = DenseStore(PublishedSize)) =>
        /\ Cardinality(fil.rejected) = 18
        /\ Len(recs) = 95
        /\ \A i \in 1..Len(recs) : recs[i].id = i
        /\ \A i, j \in 1..Len(recs) : i < j => recs[i].key < recs[j].key

\* The questions of batch b of the original store.
BatchOf(b) == {k \in 1..Len(fil.orig) : (k - 1) \div BATCH_SIZE = b}

\* C33: when the API call of a batch fails or its response holds no verdict
\* array, every question of that batch is in the final store, whatever the
\* order in which the batches complete; a question is rejected only when a
\* response carried a verdict with keep = false for its identifier.
C33_FailedBatchKept ==
    (phase = "done" /\ fil.script = "llm") =>
        /\ \A b \in fil.fallback :
              \A k \in BatchOf(b) : fil.orig[k].key \in Keys(recs)
        /\ \A k \in 1..Len(fil.orig) :
              fil.orig[k].key \in fil.rejected => <<fil.orig[k].id, FALSE>> \in fil.verdicts

\* ---------------------------------------------- the character extractor
\* A text is the sequence of its code points, as [...text] iterates it.

\* /[\u4e00-\u9fff]/.test(ch)
IsChinese(ch) == ch >= CJK_FIRST /\ ch <= CJK_LAST

\* [...text].filter(ch => /[\u4e00-\u9fff]/.test(ch))
extractChineseChars(text) == SelectSeq(text, IsChinese)

\* allTexts.flatMap(extractChineseChars)
RECURSIVE FlatMapExtract(_, _)
FlatMapExtract(texts, k) ==
    IF k > Len(texts) THEN <<>>
    ELSE extractChineseChars(texts[k]) \o FlatMapExtract(texts, k + 1)

\* [...new Set(seq)]: the elements in insertion order, each once
RECURSIVE NewSet(_, _, _)
NewSet_all(seq, k, acc) == seq
NewSet(seq, k, acc) ==
    IF k > Len(seq) THEN acc
    ELSE NewSet(seq, k + 1,
                IF \E j \in 1..Len(acc) : acc[j] = seq[k] THEN acc ELSE Append(acc, seq[k]))

\* const allChars = [...new Set(allTexts.flatMap(extractChineseChars))]
allChars(texts) == NewSet(FlatMapExtract(texts, 1), 1, <<>>)

\* Code points at and around the ends of the block, "?", "1", "A", " ", and
\* the fullwidth question mark.
Alphabet == {CJK_FIRST - 1, CJK_FIRST, CJK_LAST, CJK_LAST + 1, 63, 49, 65, 32, 65311}
TextsUpTo(n) == UNION {[1..m -> Alphabet] : m \in 0..n}
ExampleText == <<20160, 20040, 19996, 35199, 26089, 26216, 22235, 26465, 33151, 65311>>
ExampleChars == <<20160, 20040, 19996, 35199, 26089, 26216, 22235, 26465, 33151>>
TextLists ==
    {<<t>> : t \in TextsUpTo(MaxTextLen) \cup {ExampleText}}
        \cup {<<t, u>> : t, u \in TextsUpTo(1)}

InitExtract ==
    /\ phase = "init"
    /\ ext \in [texts : TextLists, chars : {<<>>}]
    /\ recs = <<>>
    /\ fil = <<>>
    /\ ui = <<>>
    /\ tts = <<>>
    /\ InitCoreIdle

\* processQuestion computes allChars from the texts of the record.
Extract ==
    /\ phase = "init"
    /\ ext' = [ext EXCEPT !.chars = allChars(ext.texts)]
    /\ phase' = "done"
    /\ UNCHANGED <<coreVars, recs, fil, ui, tts>>

NextExtract == Extract

SpecExtract == InitExtract /\ [][NextExtract]_vars

\* --------------------------------- properties of the character extractor

\* The text as one sequence, and the first position of a code point in it.
RECURSIVE Concat(_, _)
Concat(texts, k) == IF k > Len(texts) THEN <<>> ELSE texts[k] \o Concat(texts, k + 1)
FirstAt(t, ch) == CHOOSE i \in 1..Len(t) : t[i] = ch /\ \A j \in 1..(i - 1) : t[j] # ch

\* C26: the extractor gives exactly the code points of the text that lie in
\* U+4E00..U+9FFF, each once, in the order of their first occurrence; the
\* empty text gives the empty sequence, and the example text gives its nine
\* ideographs without the question mark.
C26_ExtractorExact ==
    phase = "done" =>
        LET t == Concat(ext.texts, 1)
            out == ext.chars
        IN /\ \A i, j \in 1..Len(out) : i # j => out[i] # out[j]
           /\ {out[i] : i \in 1..Len(out)} =
                 {t[i] : i \in {k \in 1..Len(t) : t[k] >= 19968 /\ t[k] <= 40959}}
           /\ \A i, j \in 1..Len(out) : i < j => FirstAt(t, out[i]) < FirstAt(t, out[j])
           /\ (t = <<>> => out = <<>>)
           /\ (ext.texts = <<ExampleText>> => out = ExampleChars)
C26_Witness ==
    /\ phase = "done"
    /\ ext.texts = <<ExampleText>>
    /\ ext.chars = ExampleChars

\* ------------------------------------------------ the quiz (App.jsx)
\* ui holds the component's state: gameState, currentQuestionIndex (idx),
\* score, isAnswered, feedback ("" for null), selectedOption (NoOption for
\* null), the index captured by a pending auto-advance timer (-1: no timer)
\* and ev, the handler that ran last.  An option is [id, isCorrect].

NoOption == [id |-> 0, isCorrect |-> FALSE]
Options == {[id |-> 1, isCorrect |-> TRUE], [id |-> 2, isCorrect |-> FALSE]}

InitQuiz ==
    /\ phase = "init"
    /\ ui = [gameState |-> "welcome", idx |-> 0, score |-> 0, isAnswered |-> FALSE,
             feedback |-> "", selected |-> NoOption, timer |-> -1, ev |-> "none"]
    /\ recs = <<>>
    /\ fil = <<>>
    /\ ext = <<>>
    /\ tts = <<>>
    /\ InitCoreIdle

QuizFrame == UNCHANGED <<phase, coreVars, recs, fil, ext, tts>>

\* startGame, the button of the welcome and of the result screen
StartGame ==
    /\ ui.gameState \in {"welcome", "result"}
    /\ ui' = [ui EXCEPT !.gameState = "playing", !.idx = 0, !.score = 0,
                        !.isAnswered = FALSE, !.feedback = "",
                        !.selected = NoOption, !.ev = "start"]
    /\ QuizFrame

\* if (isAnswered) return
SelectAllowed_always(u) == TRUE
SelectAllowed(u) == ~u.isAnswered

\* handleSelect(option): a click on an option or on one of its characters
HandleSelect(o) ==
    /\ ui.gameState = "playing"
    /\ ui' = IF SelectAllowed(ui) THEN [ui EXCEPT !.selected = o, !.ev = "select"]
             ELSE [ui EXCEPT !.ev = "select"]
    /\ QuizFrame

\* if (!selectedOption || isAnswered) return
SubmitAllowed_selected(u) == u.selected # NoOption
SubmitAllowed(u) == ~(u.selected = NoOption \/ u.isAnswered)

\* handleSubmit: the submit button is rendered unless feedback is 'incorrect'
HandleSubmit ==
    /\ ui.gameState = "playing"
    /\ ui.feedback # "incorrect"
    /\ ui' = IF ~SubmitAllowed(ui)
             THEN [ui EXCEPT !.ev = "submit"]
             ELSE IF ui.selected.isCorrect
             THEN [ui EXCEPT !.isAnswered = TRUE, !.score = @ + 1,
                             !.feedback = "correct", !.timer = ui.idx, !.ev = "submit"]
             ELSE [ui EXCEPT !.isAnswered = TRUE, !.feedback = "incorrect",
                             !.ev = "submit"]
    /\ QuizFrame

\* goToNext, with currentQuestionIndex as the calling render saw it
HasNext_one_more(i) == i < GAME_SIZE
HasNext(i) == i < GAME_SIZE - 1
GoToNext(u, i, ev) ==
    IF HasNext(i)
    THEN [u EXCEPT !.idx = i + 1, !.isAnswered = FALSE, !.feedback = "",
                   !.selected = NoOption, !.ev = ev]
    ELSE [u EXCEPT !.gameState = "result", !.ev = ev]

\* The "next question" button, rendered when feedback is 'incorrect'
NextClick ==
    /\ ui.gameState = "playing"
    /\ ui.feedback = "incorrect"
    /\ ui' = GoToNext(ui, ui.idx, "next")
    /\ QuizFrame

\* setTimeout(() => goToNext(), 2500) fires
TimerFires ==
    /\ ui.timer >= 0
    /\ ui' = [GoToNext(ui, ui.timer, "timer") EXCEPT !.timer = -1]
    /\ QuizFrame

NextQuiz ==
    \/ StartGame
    \/ \E o \in Options : HandleSelect(o)
    \/ HandleSubmit
    \/ NextClick
    \/ TimerFires

SpecQuiz == InitQuiz /\ [][NextQuiz]_vars

\* -------------------------------------------------- properties of the quiz

\* score, answered flag, feedback and question index
Graded(u) == <<u.score, u.isAnswered, u.feedback, u.idx>>
\* everything but the record of the handler that ran
Shown(u) == [u EXCEPT !.ev = "none"]

\* C28: a click on an option changes nothing but the selection; a click on
\* an option or on submit changes score, answered flag, feedback or index only
\* if it is submit with an option selected on a question not yet answered;
\* and on an answered question neither changes anything.
C28_Step ==
    /\ ui'.ev = "select" =>
          [Shown(ui') EXCEPT !.selected = NoOption] = [Shown(ui) EXCEPT !.selected = NoOption]
    /\ (ui'.ev \in {"select", "submit"} /\ Graded(ui') # Graded(ui)) =>
          /\ ui'.ev = "submit"
          /\ ui.selected # NoOption
          /\ ~ui.isAnswered
    /\ (ui'.ev \in {"select", "submit"} /\ ui.isAnswered) => Shown(ui') = Shown(ui)
Answered(u) == u.idx + (IF u.isAnswered THEN 1 ELSE 0)

\* C38: the score grows by exactly 1 with each correct answer and at most
\* once per question: 0 <= score <= questions answered in the current game
\* <= gameQuestions.length in every state, also while the auto-advance timer
\* of a correct answer is pending, and the score changes only when a correct
\* answer to a question not yet answered is submitted or a game starts.
C38_Step ==
    ui'.score # ui.score =>
        \/ /\ ui'.ev = "submit"
           /\ ui.selected.isCorrect
           /\ ~ui.isAnswered /\ ui'.isAnswered
           /\ ui'.score = ui.score + 1
        \/ ui'.ev = "start" /\ ui'.score = 0

C38_ScoreBounded ==
    /\ [](0 <= ui.score /\ ui.score <= Answered(ui) /\ Answered(ui) <= GAME_SIZE)
    /\ [][C38_Step]_vars

\* Every question of the game was answered correctly and the timer of the
\* last answer is pending.
C38_Witness ==
    /\ ui.gameState = "playing"
    /\ ui.timer >= 0
    /\ ui.score = GAME_SIZE

\* C39: the game state only moves welcome -> playing -> result -> playing;
\* every game starts at index 0 with score 0, no selection and no feedback;
\* the index only grows by 1, past a question that was answered, by the
\* timer after a correct answer and by the next button after an incorrect
\* one; the index never exceeds gameQuestions.length - 1; and the result
\* state is entered only by advancing past the last question.
C39_Step ==
    /\ ui'.gameState # ui.gameState =>
          <<ui.gameState, ui'.gameState>> \in
              {<<"welcome", "playing">>, <<"playing", "result">>, <<"result", "playing">>}
    /\ (ui'.gameState = "playing" /\ ui.gameState # "playing") =>
          /\ ui'.idx = 0 /\ ui'.score = 0
          /\ ui'.selected = NoOption /\ ui'.feedback = "" /\ ~ui'.isAnswered
    /\ (ui'.idx # ui.idx /\ ui'.gameState = ui.gameState) =>
          /\ ui'.idx = ui.idx + 1
          /\ ui.isAnswered /\ ~ui'.isAnswered
          /\ \/ ui'.ev = "timer" /\ ui.feedback = "correct"
             \/ ui'.ev = "next" /\ ui.feedback = "incorrect"
    /\ (ui.gameState = "playing" /\ ui.isAnswered /\ ui'.ev = "timer") =>
          ui.feedback = "correct"
    /\ (ui.gameState = "playing" /\ ui'.ev = "next") => ui.feedback = "incorrect"
    /\ (ui'.gameState = "result" /\ ui.gameState # "result") =>
          /\ ui.idx = GAME_SIZE - 1
          /\ ui.isAnswered
          /\ ui'.ev \in {"timer", "next"}

C39_GameFlow ==
    /\ [](ui.idx >= 0 /\ ui.idx <= GAME_SIZE - 1)
    /\ [](ui.timer >= 0 => (ui.gameState = "playing" /\ ui.timer = ui.idx
                              /\ ui.feedback = "correct"))
    /\ [][C39_Step]_vars

\* A game ended by the timer of a correct last answer, after correct and
\* incorrect answers.
C39_Witness ==
    /\ ui.gameState = "result"
    /\ ui.ev = "timer"
    /\ ui.score = GAME_SIZE - 2

\* ------------------------------------------ the speech utility (tts.js)
\* tts holds the module state of utils/tts.js and what the browser plays:
\* cache (the keys of audioCache), current (currentAudio, 0 for null), playing
\* (the Audio elements that play; an element is named by the number of the
\* speak call that created it), ended (the elements that played to their
\* end), speaking (speechSynthesis.speaking), calls
\* (the speak calls so far: [pc, key], pc "synth" while the call awaits
\* synthesizeEdgeTTS).  Key 0 is a text of white space only.

MaxSpeaks == 3
SpeakKeys == 0..2

\* if (currentAudio) { currentAudio.pause(); ...; currentAudio = null }
StopCurrent(t) == [t EXCEPT !.playing = @ \ {t.current}, !.current = 0]

\* const audio = new Audio(url); currentAudio = audio; audio.play().catch(...)
\* for the element of call c; play() can be refused by the browser.
PlayNew(t, c, plays) ==
    [t EXCEPT !.current = c, !.playing = IF plays THEN @ \cup {c} ELSE @]

InitSpeech ==
    /\ phase = "init"
    /\ tts = [cache |-> {}, current |-> 0, playing |-> {}, ended |-> {},
              speaking |-> FALSE, calls |-> <<>>]
    /\ recs = <<>>
    /\ fil = <<>>
    /\ ext = <<>>
    /\ ui = <<>>
    /\ InitCoreIdle

SpeechFrame == UNCHANGED <<phase, coreVars, recs, fil, ext, ui>>

\* speak(text) up to its return or to `await synthesizeEdgeTTS(...)`.
Speak(key, plays) ==
    /\ Len(tts.calls) < MaxSpeaks
    /\ LET c == Len(tts.calls) + 1
           stopped == [StopCurrent(tts) EXCEPT !.speaking = FALSE]
       IN tts' = IF key = 0
                 THEN [tts EXCEPT !.calls = Append(@, [pc |-> "done", key |-> key])]
                 ELSE IF key \in tts.cache
                 THEN [PlayNew(stopped, c, plays) EXCEPT
                          !.calls = Append(@, [pc |-> "done", key |-> key])]
                 ELSE [stopped EXCEPT !.calls = Append(@, [pc |-> "synth", key |-> key])]
    /\ SpeechFrame

\* synthesizeEdgeTTS of call c returned the blob URL: the rest of the try block.
SpeechSynthesized(c, plays) ==
    /\ tts.calls[c].pc = "synth"
    /\ tts' = [PlayNew(tts, c, plays) EXCEPT
                  !.cache = @ \cup {tts.calls[c].key}, !.calls[c].pc = "done"]
    /\ SpeechFrame

\* synthesizeEdgeTTS of call c threw: speakFallback.
SpeechFallback(c) ==
    /\ tts.calls[c].pc = "synth"
    /\ tts' = [tts EXCEPT !.speaking = TRUE, !.calls[c].pc = "done"]
    /\ SpeechFrame

\* An Audio element plays to its end.
AudioEnds(a) ==
    /\ a \in tts.playing
    /\ tts' = [tts EXCEPT !.playing = @ \ {a}, !.ended = @ \cup {a}]
    /\ SpeechFrame

\* The utterance of the fallback is over.
UtteranceEnds ==
    /\ tts.speaking
    /\ tts' = [tts EXCEPT !.speaking = FALSE]
    /\ SpeechFrame

NextSpeech ==
    \/ \E key \in SpeakKeys : \E plays \in BOOLEAN : Speak(key, plays)
    \/ \E c \in DOMAIN tts.calls : \E plays \in BOOLEAN : SpeechSynthesized(c, plays)
    \/ \E c \in DOMAIN tts.calls : SpeechFallback(c)
    \/ \E a \in tts.playing : AudioEnds(a)
    \/ UtteranceEnds

SpecSpeech == InitSpeech /\ [][NextSpeech]_vars

\* ------------------------------------------ properties of the speech utility

\* C37: for every sequence and interleaving of speak calls at most one Audio
\* element started by speak plays at a time, also when the synthesis of an
\* earlier call finishes after a later call has started to play.
C37_OneAudioPlaying == Cardinality(tts.playing) <= 1

\* ------------------------------------- the import script (import_data_txt)
\* A record is [id, key]; key is the text of the question, a sequence of code
\* points.  An id of 0 stands for null, which JSON.stringify writes for a
\* number that is not finite.

\* text.replace(/[？?！!。，,\s]/g, ''): the code points the pattern removes
\* (？ ? ！ ! 。 ， , and the white space \s matches in these texts).
Stripped == {65311, 63, 65281, 33, 12290, 65292, 44, 32, 9, 10, 13, 12288}
Normalize(text) ==
    LET Stays(c) == c \notin Stripped IN SelectSeq(text, Stays)

\* new Set(existing.map(q => q.text.replace(...)))
ExistingTexts(existing) == {Normalize(existing[i].key) : i \in 1..Len(existing)}

\* The texts of the model: record k of the store reads "<k>？"; the j-th new
\* question of data.txt reads "<j>" with another character; 、 (12289) is a
\* punctuation mark the pattern leaves in place.
StoredText(k) == <<20000 + k, 65311>>
NewKey(j) == <<20100 + j>>
TextStore(rs) == [k \in 1..Len(rs) |-> [rs[k] EXCEPT !.key = StoredText(rs[k].key)]]
RawFiles ==
    { <<>>, <<<<20001>>>>, <<NewKey(1)>>,
      <<NewKey(1), <<20001, 32, 33>>, NewKey(2), NewKey(1) \o <<63>>>>,
      [j \in 1..(IMPORT_BATCH_SIZE + 1) |-> NewKey(j)] }

\* raw.filter(q => !existingTexts.has(normalized))
NewRaw(raw, existing) ==
    LET Unknown(t) == Normalize(t) \notin ExistingTexts(existing)
    IN SelectSeq(raw, Unknown)

\* batches[i] = newRaw.slice(i * BATCH_SIZE, (i + 1) * BATCH_SIZE)
ImportBatches(n) == (n + IMPORT_BATCH_SIZE - 1) \div IMPORT_BATCH_SIZE
ImportBatch(newRaw, i) ==
    SubSeq(newRaw, i * IMPORT_BATCH_SIZE + 1,
           Min((i + 1) * IMPORT_BATCH_SIZE, Len(newRaw)))

\* What processBatch returns, as the texts of the selected items (item.text is
\* the text the response carries): nothing (also on an error), the first
\* question, the first question twice, the first question twice with
\* different punctuation, every question, the first question and record 1's
\* text written with other punctuation, or the first question with and
\* without a 、.
Selections(batch) ==
    IF batch = <<>> THEN {<<>>}
    ELSE {<<>>, <<batch[1]>>, <<batch[1], batch[1]>>,
          <<batch[1] \o <<65311>>, <<32>> \o batch[1] \o <<33>>>>, batch,
          <<batch[1], <<20001, 12290>>>>, <<batch[1], batch[1] \o <<12289>>>>}

\* Math.max(...existing.map(q => q.id)): -Infinity for an empty store
RECURSIVE MaxOf(_, _)
MaxOf(rs, k) ==
    IF k > Len(rs) THEN [inf |-> TRUE, n |-> 0]
    ELSE LET rest == MaxOf(rs, k + 1)
         IN IF rest.inf \/ rs[k].id > rest.n THEN [inf |-> FALSE, n |-> rs[k].id]
            ELSE rest

\* let nextId = Math.max(...) + 1; then id: nextId++ for the k-th item
NextId(existing, k) ==
    LET m == MaxOf(existing, 1) IN IF m.inf THEN 0 ELSE m.n + k

\* newQuestions, then the second de-duplication
NewQuestions(existing, sel) ==
    [k \in 1..Len(sel) |-> [id |-> NextId(existing, k), key |-> sel[k]]]
\* if (seen.has(key) || existingTexts.has(key)) return false
IsDuplicate_seen(key, seen, existing) == key \in seen
IsDuplicate(key, seen, existing) ==
    key \in seen \/ key \in ExistingTexts(existing)
RECURSIVE Deduped(_, _, _, _)
Deduped(nq, k, seen, existing) ==
    IF k > Len(nq) THEN <<>>
    ELSE LET key == Normalize(nq[k].key)
         IN IF IsDuplicate(key, seen, existing)
            THEN Deduped(nq, k + 1, seen, existing)
            ELSE <<nq[k]>> \o Deduped(nq, k + 1, seen \cup {key}, existing)

InitImport ==
    /\ phase = "init"
    /\ recs \in {TextStore(DenseStore(n)) : n \in 0..MaxExisting}
                    \cup {TextStore(SparseStore)}
    /\ \E raw \in RawFiles :
          fil = [script |-> "import", orig |-> recs, raw |-> raw, newRaw |-> <<>>,
                 i |-> 0, pc |-> "init", allSelected |-> <<>>]
    /\ ext = <<>>
    /\ ui = <<>>
    /\ tts = <<>>
    /\ InitCoreIdle

\* main, from reading the files to the first `await processBatch(...)`, or to
\* its return when nothing is new.
ImportStart ==
    /\ phase = "init"
    /\ fil.script = "import"
    /\ LET newRaw == NewRaw(fil.raw, recs)
       IN IF newRaw = <<>>
          THEN /\ fil' = [fil EXCEPT !.pc = "done"]
               /\ phase' = "done"
          ELSE /\ fil' = [fil EXCEPT !.newRaw = newRaw, !.pc = "call"]
               /\ phase' = "pool"
    /\ UNCHANGED <<coreVars, recs, ext, ui, tts>>

\* processBatch returned: push the selection; sleep before the next batch, or
\* after the last one build the questions, de-duplicate and write.
ImportBatchReturns(sel) ==
    /\ phase = "pool"
    /\ fil.script = "import"
    /\ fil.pc = "call"
    /\ LET all == fil.allSelected \o sel
       IN IF fil.i < ImportBatches(Len(fil.newRaw)) - 1
          THEN /\ fil' = [fil EXCEPT !.allSelected = all, !.pc = "sleep"]
               /\ UNCHANGED <<phase, recs>>
          ELSE /\ fil' = [fil EXCEPT !.allSelected = all, !.pc = "done"]
               /\ phase' = "done"
               /\ recs' = IF all = <<>> THEN recs
                          ELSE recs \o Deduped(NewQuestions(recs, all), 1, {}, recs)
    /\ UNCHANGED <<coreVars, ext, ui, tts>>

\* The 500 ms pause is over: the next batch.
ImportSleepEnds ==
    /\ phase = "pool"
    /\ fil.script = "import"
    /\ fil.pc = "sleep"
    /\ fil' = [fil EXCEPT !.i = @ + 1, !.pc = "call"]
    /\ UNCHANGED <<phase, coreVars, recs, ext, ui, tts>>

NextImport ==
    \/ ImportStart
    \/ \E sel \in Selections(ImportBatch(fil.newRaw, fil.i)) : ImportBatchReturns(sel)
    \/ ImportSleepEnds

SpecImport == InitImport /\ [][NextImport]_vars

\* --------------------------------------- properties of the import script

Appended == {k \in 1..Len(recs) : k > Len(fil.orig)}

\* C29: every question the import appends gets a positive identifier that is
\* greater than every identifier the store had and differs from the other
\* appended identifiers, so the identifiers of the store stay unique, also
\* when the store was empty.
C29_FreshIds ==
    phase = "done" =>
        /\ \A k \in Appended :
              /\ recs[k].id > 0
              /\ \A j \in 1..Len(fil.orig) : recs[k].id > fil.orig[j].id
              /\ \A j \in Appended : j # k => recs[j].id # recs[k].id
        /\ \A j, k \in 1..Len(recs) : j # k => recs[j].id # recs[k].id

\* C32: after the import, no appended question has a normalized text equal
\* to that of a question the store already had or of another appended
\* question, and the questions the store had are unchanged and in order at
\* the front of the store.
C32_NoDuplicateText ==
    phase = "done" =>
        /\ \A k \in Appended :
              /\ \A j \in 1..Len(fil.orig) :
                    Normalize(recs[k].key) # Normalize(fil.orig[j].key)
              /\ \A j \in Appended :
                    j # k => Normalize(recs[j].key) # Normalize(recs[k].key)
        /\ Len(recs) >= Len(fil.orig)
        /\ SubSeq(recs, 1, Len(fil.orig)) = fil.orig

\* The import ended after the response repeated a question with other
\* punctuation and one of the two was appended to a store that had records.
C32_Witness ==
    /\ phase = "done"
    /\ fil.orig # <<>>
    /\ Len(fil.allSelected) = 2
    /\ fil.allSelected[1] # fil.allSelected[2]
    /\ Normalize(fil.allSelected[1]) = Normalize(fil.allSelected[2])
    /\ Cardinality(Appended) = 1

\* ------------------------------- properties of an interrupted resolver run

\* A request that is in flight is answered with its outcome and the answer is
\* written to the record: a run that is not interrupted ends with the outcome
\* in the entry of every character it asked for.
UninterruptedKeepsOutcome ==
    (phase = "done" /\ hist.kills = 0) =>
        \A i \in DOMAIN rt : \A ch \in rt[i].api :
            EntryOf(saved[i + 1], ch) = <<Oracle(i)[ch]>>

\* C23: when a run is interrupted and the script is run again to completion,
\* the final record store is the one the uninterrupted run produces: every
\* entry the interrupted run had asked the external service for ends as the
\* outcome of that call.
C23_ResumeEquivalent ==
    phase = "done" =>
        \A x \in hist.asked : EntryOf(saved[x[1] + 1], x[2]) = <<Oracle(x[1])[x[2]]>>

\* ------------------------------------------ termination of the worker pool

\* C30: when every task a worker awaits settles and concurrency >= 1, runPool
\* eventually resolves, and when it resolves every task has completed
\* (completed = tasks.length) and every worker has left its loop.
C30_PoolResolves ==
    /\ <>(phase = "done")
    /\ [](phase = "done" =>
            /\ completed = tasksLen
            /\ \A w \in DOMAIN wk : wk[w].pc = "done"
            /\ \A i \in 0..(tasksLen - 1) : results[i] = TaskValue(i))

\* runPool resolved after two workers shared the largest queue, with the
\* delay between requests on.
C30_Witness ==
    /\ phase = "done"
    /\ tasksLen = MaxTasks
    /\ concurrency >= 2
    /\ delay
    /\ completed = tasksLen

\* ------------------------------------ audio references and the artifacts

\* The entries of the record store qs whose audioFile this run assigned.
SetByRun(qs) ==
    {k \in 1..Len(qs) : qs[k].audio # 0 /\ qs[k].audio # questions0[k].audio}

\* C31: an entry's audioFile is assigned only once the artifact is in the
\* audio directory: in every state of a run, the entries this run set, in
\* memory and in the questions.json of the latest save, reference artifacts
\* that exist, and a step that assigns an audioFile assigns one whose artifact
\* exists after the step.
C31_Step ==
    \A k \in 1..Len(questions) :
        questions'[k].audio # questions[k].audio => questions'[k].audio \in disk'

C31_WiredAfterWritten ==
    /\ [](\A k \in SetByRun(questions) : questions[k].audio \in disk)
    /\ [](\A k \in SetByRun(saved) : saved[k].audio \in disk)
    /\ [][C31_Step]_vars

\* A checkpoint saved entries set by this run while a failed job's entry
\* stays without audioFile.
C31_Witness ==
    /\ phase = "pool"
    /\ Len(checkpoints) >= 1
    /\ SetByRun(saved) # {}
    /\ \E k \in 1..Len(saved) : saved[k].audio = 0
====
